---- MODULE Spec2Model ----
(***************************************************************************)
(* Plan/execute core of camino-gpt-basic: the plan validator               *)
(* (lib/schemas.ts, lib/executor.ts validatePlan), the planner's pause     *)
(* normalisation (lib/planner.ts), the executor (lib/executor.ts           *)
(* executePlan), the plan store (lib/obs.ts) and the request handler that  *)
(* wires them (app/api/chat/route.ts POST).                                *)
(*                                                                         *)
(* The specifications share the variables:                                 *)
(*   ExecSpec   one executePlan pass over an arbitrary valid plan and      *)
(*              arbitrary options, one action per await point;             *)
(*   PlanSpec   validatePlan and normalizePauses applied to candidates;    *)
(*   Spec       the POST handler, request after request, over the store;   *)
(*   LiveSpec   the POST handler under fair scheduling;                    *)
(*   ReconSpec  step 4 of POST applied to executor results;                *)
(*   TripSpec   POST on a built plan, with the tools of lib/toolRegistry;  *)
(*   LineSpec   the same for one route step between two named places;      *)
(*   DeriveSpec executePlan with hardMaxSteps 0 (plan-derived itinerary);  *)
(*   ConcSpec   overlapping handlers on the plan store;                    *)
(*   OrderSpec  executePlan called directly, any start index, then step 4; *)
(*   RaceSpec   attempts raced against the per-attempt timer.              *)
(***************************************************************************)
EXTENDS Integers, Sequences, FiniteSets, TLC

\* ------------------------------------------------------------------ bounds
MaxSteps == 3        \* longest plan the executor is run on
MaxRetries == 1      \* largest maxRetries option tried
MaxPlanSteps == 50   \* schemas.ts: steps: z.array(PlanStep).min(1).max(50)

\* ------------------------------------------------------------- vocabulary
\* schemas.ts ToolName: the fixed enum of tool names
ToolName ==
    {"map.focus", "map.drawRoute", "map.addMarkers", "rag.search",
     "places.search", "elevation.profile", "export.gpx"}

\* ids given to the steps of the plans the model builds, by position
StepIds == <<"s1", "s2", "s3", "s4", "s5">>

\* "no value" (undefined / null), one per type
None == "none"
NoLimit == -1
NoBudget == 0
NoItinerary == [src |-> "none", step |-> -1]
NoPlan == [steps |-> <<>>, budget |-> NoBudget]
NoOptions ==
    [startIndex |-> 0, hardMaxSteps |-> NoLimit, maxRetries |-> 0,
     honorPause |-> FALSE, prependClear |-> FALSE, alreadyExecuted |-> {}]
NoResult ==
    [actions |-> <<>>, nextIndex |-> -1, paused |-> FALSE, logs |-> <<>>,
     itinerary |-> NoItinerary]

VARIABLES
    \* ---- executePlan (lib/executor.ts)
    plan,        \* opts.plan
    opts,        \* the other options, defaults applied
    epc,         \* position in executePlan: "idle" | "loop" | "done"
    i,           \* loop index
    attempt,     \* attempts already failed for step i
    actions,     \* aggregate UI actions
    logs,        \* StepLog entries
    itinerary,   \* working itinerary
    calls,       \* ghost: runTool invocations per step index in this pass
    errorMsg,    \* message of the last failed attempt of step i
    result,      \* ExecuteResult once returned
    \* ---- validatePlan / buildPlan applied to one candidate
    cand,        \* the untrusted candidate (parsed JSON)
    vpc,         \* "start" | "submitted" | "validated" | "revalidated"
    vout,        \* what validatePlan(cand) did
    vout2,       \* what validatePlan did on the plan it had returned
    bout,        \* what buildPlan did with the model's output
    \* ---- POST /api/chat (app/api/chat/route.ts) and the plan store
    store,       \* lib/obs.ts store: plan id -> PlanRecord
    rpc,         \* position in POST: "idle" | "planning" | "executing"
    req,         \* the request body being served
    planId,      \* the request's plan id
    validated,   \* what validatePlan did in this request
    response,    \* the last response sent
    nreq,        \* requests received so far
    nresp,       \* responses sent so far
    genCalls,    \* generative requests issued by buildPlan in this request
    orphans      \* generative requests still running, their handler gone

evars == <<plan, opts, epc, i, attempt, actions, logs, itinerary, calls,
           errorMsg, result>>

pvars == <<cand, vpc, vout, vout2>>

rvars == <<bout, store, rpc, req, planId, validated, response, nreq, nresp,
           genCalls, orphans>>

vars == <<evars, pvars, rvars>>

\* -------------------------------------------------------------- helpers
Min(a, b) == IF a <= b THEN a ELSE b

\* JS truthiness of a step's optional pauseForUser flag
Truthy(flag) == flag = "true"

\* ------------------------------------------------------------- executor
\* mutant: the boundary lands one step past the pause step
findPauseIndex_OffByOne(p, startIndex) ==
    LET hits == {k \in startIndex .. Len(p.steps) - 1 :
                    Truthy(p.steps[k + 1].pauseForUser)}
    IN  IF hits = {} THEN -1
        ELSE (CHOOSE k \in hits : \A m \in hits : k <= m) + 1

\* findPauseIndex: index of the first paused step at or after startIndex, or
\* -1. Indexes are 0-based as in the source; steps[k + 1] is step k.
findPauseIndex(p, startIndex) ==
    LET hits == {k \in startIndex .. Len(p.steps) - 1 :
                    Truthy(p.steps[k + 1].pauseForUser)}
    IN  IF hits = {} THEN -1
        ELSE CHOOSE k \in hits : \A m \in hits : k <= m

\* mutant: the caller's hardMaxSteps is ignored
hardMax_IgnoresCaller(p, o) == Len(p.steps)

\* const hardMax = Math.min(hardMaxSteps ?? plan.steps.length, plan.steps.length)
hardMax(p, o) ==
    Min(IF o.hardMaxSteps = NoLimit THEN Len(p.steps) ELSE o.hardMaxSteps,
        Len(p.steps))

pauseIdx(p, o) == IF o.honorPause THEN findPauseIndex(p, o.startIndex) ELSE -1

finalStopExclusive(p, o) ==
    IF pauseIdx(p, o) >= 0 THEN pauseIdx(p, o) ELSE Len(p.steps)

\* mutant: the stop boundary ignores the pause step
stopAt_IgnoresPause(p, o) == Min(Len(p.steps), o.startIndex + hardMax(p, o))

\* const stopAt = Math.min(finalStopExclusive, startIndex + hardMax)
stopAt(p, o) == Min(finalStopExclusive(p, o), o.startIndex + hardMax(p, o))

\* mutant: the first map.drawRoute step that carries stages or names is used
extractItineraryFromPlan_AnyRoute(p) ==
    LET routes == {k \in 1 .. Len(p.steps) :
                      p.steps[k].tool = "map.drawRoute" /\ p.steps[k].args = "route"}
    IN  IF routes = {} THEN NoItinerary
        ELSE [src |-> "plan",
              step |-> (CHOOSE r \in routes : \A m \in routes : r <= m) - 1]

\* extractItineraryFromPlan: derived from the plan's first map.drawRoute step
\* when its args carry stages or start/end names ("route"); null otherwise
extractItineraryFromPlan(p) ==
    LET routes == {k \in 1 .. Len(p.steps) : p.steps[k].tool = "map.drawRoute"}
    IN  IF routes = {} THEN NoItinerary
        ELSE LET k == CHOOSE r \in routes : \A m \in routes : r <= m
             IN  IF p.steps[k].args = "route"
                 THEN [src |-> "plan", step |-> k - 1]
                 ELSE NoItinerary

\* What a tool's run returns when it succeeds, by tool (lib/toolRegistry.ts):
\* uiActions (None when the result has no uiActions array) and whether an
\* itinerary array is surfaced.
ToolResults(tool) ==
    CASE tool = "map.focus" ->
            {[uiActions |-> <<"focus">>, itinerary |-> FALSE]}
      [] tool = "map.drawRoute" ->
            {[uiActions |-> <<"drawRoute", "drawMarkers">>, itinerary |-> b] :
                b \in BOOLEAN}
      [] tool = "map.addMarkers" ->
            {[uiActions |-> <<"drawMarkers">>, itinerary |-> FALSE]}
      [] OTHER ->
            {[uiActions |-> <<>>, itinerary |-> FALSE]}

\* UI actions carry the index of the step that produced them (ghost field
\* src; -1 for the executor's own clearRoute)
Tagged(types, k) == [n \in 1 .. Len(types) |-> [type |-> types[n], src |-> k]]

CurStep == plan.steps[i + 1]

\* executePlan, entry to the first loop test
StartExecute(p, o) ==
    /\ plan' = p
    /\ opts' = o
    /\ epc' = "loop"
    /\ i' = o.startIndex
    /\ attempt' = 0
    /\ actions' = IF o.prependClear /\ o.startIndex = 0
                  THEN <<[type |-> "clearRoute", src |-> -1]>>
                  ELSE <<>>
    /\ logs' = <<>>
    /\ itinerary' = NoItinerary
    /\ calls' = [k \in 1 .. Len(p.steps) |-> 0]
    /\ errorMsg' = None
    /\ result' = NoResult

\* mutant: a step the caller marked as executed is logged as skipped and its
\* tool is run all the same
LoopSkip_RunsAnyway ==
    /\ epc = "loop"
    /\ i < stopAt(plan, opts)
    /\ CurStep.id \in opts.alreadyExecuted
    /\ logs' = Append(logs, [idx |-> i, id |-> CurStep.id, tool |-> CurStep.tool,
                             status |-> "skipped", errorCode |-> None])
    /\ \E res \in ToolResults(CurStep.tool) :
            actions' = actions \o Tagged(res.uiActions, i)
    /\ calls' = [calls EXCEPT ![i + 1] = @ + 1]
    /\ i' = i + 1
    /\ UNCHANGED <<plan, opts, epc, attempt, itinerary, errorMsg, result>>
    /\ UNCHANGED <<pvars, rvars>>

\* if (alreadyExecuted?.has(step.id)) { logs.push(skipped); continue; }
LoopSkip ==
    /\ epc = "loop"
    /\ i < stopAt(plan, opts)
    /\ CurStep.id \in opts.alreadyExecuted
    /\ logs' = Append(logs, [idx |-> i, id |-> CurStep.id, tool |-> CurStep.tool,
                             status |-> "skipped", errorCode |-> None])
    /\ i' = i + 1
    /\ UNCHANGED <<plan, opts, epc, attempt, actions, itinerary, calls,
                   errorMsg, result>>
    /\ UNCHANGED <<pvars, rvars>>

\* one attempt: await withTimeout(runTool(...)) resolves with the tool's result
AttemptOk ==
    /\ epc = "loop"
    /\ i < stopAt(plan, opts)
    /\ CurStep.id \notin opts.alreadyExecuted
    /\ attempt <= opts.maxRetries
    /\ \E res \in ToolResults(CurStep.tool) :
        /\ actions' = actions \o Tagged(res.uiActions, i)
        /\ itinerary' = IF res.itinerary THEN [src |-> "tool", step |-> i]
                        ELSE itinerary
    /\ calls' = [calls EXCEPT ![i + 1] = @ + 1]
    /\ logs' = Append(logs, [idx |-> i, id |-> CurStep.id, tool |-> CurStep.tool,
                             status |-> "ok", errorCode |-> None])
    /\ i' = i + 1
    /\ attempt' = 0
    /\ errorMsg' = None
    /\ UNCHANGED <<plan, opts, epc, result>>
    /\ UNCHANGED <<pvars, rvars>>

\* mutant: a step that failed on every attempt is logged and the loop goes on
AttemptFail_SkipAndContinue ==
    /\ epc = "loop"
    /\ i < stopAt(plan, opts)
    /\ CurStep.id \notin opts.alreadyExecuted
    /\ attempt <= opts.maxRetries
    /\ \E kind \in {"timeout", "throw"} :
        /\ calls' = [calls EXCEPT ![i + 1] = @ + 1]
        /\ errorMsg' = kind
        /\ IF attempt + 1 > opts.maxRetries
           THEN /\ logs' = Append(logs, [idx |-> i, id |-> CurStep.id,
                                         tool |-> CurStep.tool,
                                         status |-> "error", errorCode |-> kind])
                /\ i' = i + 1
                /\ attempt' = 0
           ELSE /\ attempt' = attempt + 1
                /\ UNCHANGED <<logs, i>>
    /\ UNCHANGED <<plan, opts, epc, actions, itinerary, result>>
    /\ UNCHANGED <<pvars, rvars>>

\* mutant: an attempt that timed out does not count toward maxRetries
AttemptFail_TimeoutsFree ==
    /\ epc = "loop"
    /\ i < stopAt(plan, opts)
    /\ CurStep.id \notin opts.alreadyExecuted
    /\ attempt <= opts.maxRetries
    /\ \E kind \in {"timeout", "throw"} :
        /\ calls' = [calls EXCEPT ![i + 1] = @ + 1]
        /\ errorMsg' = kind
        /\ attempt' = IF kind = "timeout" THEN attempt ELSE attempt + 1
        /\ IF attempt' > opts.maxRetries
           THEN /\ logs' = Append(logs, [idx |-> i, id |-> CurStep.id,
                                         tool |-> CurStep.tool,
                                         status |-> "error", errorCode |-> kind])
                /\ result' = [actions |-> actions, nextIndex |-> i,
                              paused |-> FALSE, logs |-> logs',
                              itinerary |-> itinerary]
                /\ epc' = "done"
           ELSE UNCHANGED <<logs, result, epc>>
    /\ UNCHANGED <<plan, opts, i, actions, itinerary>>
    /\ UNCHANGED <<pvars, rvars>>

\* mutant: the return from the catch block derives an itinerary from the plan
\* when no tool has surfaced one
AttemptFail_DerivesFromPlan ==
    /\ epc = "loop"
    /\ i < stopAt(plan, opts)
    /\ CurStep.id \notin opts.alreadyExecuted
    /\ attempt <= opts.maxRetries
    /\ \E kind \in {"timeout", "throw"} :
        /\ calls' = [calls EXCEPT ![i + 1] = @ + 1]
        /\ errorMsg' = kind
        /\ attempt' = attempt + 1
        /\ IF attempt + 1 > opts.maxRetries
           THEN /\ logs' = Append(logs, [idx |-> i, id |-> CurStep.id,
                                         tool |-> CurStep.tool,
                                         status |-> "error", errorCode |-> kind])
                /\ result' = [actions |-> actions, nextIndex |-> i,
                              paused |-> FALSE, logs |-> logs',
                              itinerary |-> IF itinerary = NoItinerary
                                            THEN extractItineraryFromPlan(plan)
                                            ELSE itinerary]
                /\ epc' = "done"
           ELSE UNCHANGED <<logs, result, epc>>
    /\ UNCHANGED <<plan, opts, i, actions, itinerary>>
    /\ UNCHANGED <<pvars, rvars>>

\* one attempt: the race rejects, by the timer ("timeout") or because runTool
\* threw ("throw"); both land in the same catch block
AttemptFail ==
    /\ epc = "loop"
    /\ i < stopAt(plan, opts)
    /\ CurStep.id \notin opts.alreadyExecuted
    /\ attempt <= opts.maxRetries
    /\ \E kind \in {"timeout", "throw"} :
        /\ calls' = [calls EXCEPT ![i + 1] = @ + 1]
        /\ errorMsg' = kind
        /\ attempt' = attempt + 1
        /\ IF attempt + 1 > opts.maxRetries
           THEN /\ logs' = Append(logs, [idx |-> i, id |-> CurStep.id,
                                         tool |-> CurStep.tool,
                                         status |-> "error", errorCode |-> kind])
                /\ result' = [actions |-> actions, nextIndex |-> i,
                              paused |-> FALSE, logs |-> logs',
                              itinerary |-> itinerary]
                /\ epc' = "done"
           ELSE UNCHANGED <<logs, result, epc>>
    /\ UNCHANGED <<plan, opts, i, actions, itinerary>>
    /\ UNCHANGED <<pvars, rvars>>

\* mutant: paused does not look at where the loop stopped
LoopExit_PausedAnywhere ==
    /\ epc = "loop"
    /\ i >= stopAt(plan, opts)
    /\ itinerary' = IF itinerary = NoItinerary THEN extractItineraryFromPlan(plan)
                    ELSE itinerary
    /\ result' = [actions |-> actions, nextIndex |-> i,
                  paused |-> opts.honorPause /\ pauseIdx(plan, opts) >= 0,
                  logs |-> logs, itinerary |-> itinerary']
    /\ epc' = "done"
    /\ UNCHANGED <<plan, opts, i, attempt, actions, logs, calls, errorMsg>>
    /\ UNCHANGED <<pvars, rvars>>

\* loop exit at the stop boundary, plan-derived itinerary, final return
LoopExit ==
    /\ epc = "loop"
    /\ i >= stopAt(plan, opts)
    /\ itinerary' = IF itinerary = NoItinerary THEN extractItineraryFromPlan(plan)
                    ELSE itinerary
    /\ result' = [actions |-> actions, nextIndex |-> i,
                  paused |-> opts.honorPause /\ pauseIdx(plan, opts) >= 0
                             /\ i = pauseIdx(plan, opts),
                  logs |-> logs, itinerary |-> itinerary']
    /\ epc' = "done"
    /\ UNCHANGED <<plan, opts, i, attempt, actions, logs, calls, errorMsg>>
    /\ UNCHANGED <<pvars, rvars>>

\* ------------------------------------------------------------ validator
\* A candidate is parsed JSON of unknown shape. Optional fields that are
\* missing hold Absent; a field holding a value of the wrong type holds
\* BadType; extra tells whether the object carries a key the schema does not
\* name. A step's args is "empty" or "route" (objects), "array" or Absent.
Absent == "absent"
BadType == "badtype"
ObjectArgs == {"empty", "route"}
Specialists == {"navigator", "concierge", "safety", "logistics"}

Idle ==
    /\ plan = NoPlan /\ opts = NoOptions /\ epc = "idle" /\ i = 0 /\ attempt = 0
    /\ actions = <<>> /\ logs = <<>> /\ itinerary = NoItinerary /\ calls = <<>>
    /\ errorMsg = None /\ result = NoResult

\* no outcome yet; an outcome is the data, or why there is none
NoOutcome == [ok |-> FALSE, data |-> NoPlan, why |-> None]
Failed(why) == [ok |-> FALSE, data |-> NoPlan, why |-> why]
Ok(data) == [ok |-> TRUE, data |-> data, why |-> None]

NoCandidate ==
    /\ cand = NoPlan /\ vpc = "start" /\ vout = NoOutcome /\ vout2 = NoOutcome

\* mutant: a step's tool is not checked against the enum
PlanStepOk_AnyTool(s) ==
    /\ s.id \notin {"", Absent}
    /\ s.args \in ObjectArgs
    /\ s.why \in {Absent, "text"}
    /\ s.pauseForUser \in {Absent, "true", "false"}

\* schemas.ts PlanStep
PlanStepOk(s) ==
    /\ s.id \notin {"", Absent}                       \* z.string().min(1)
    /\ s.tool \in ToolName                            \* ToolName
    /\ s.args \in ObjectArgs                          \* z.record(z.unknown())
    /\ s.why \in {Absent, "text"}                     \* z.string().optional()
    /\ s.pauseForUser \in {Absent, "true", "false"}   \* z.boolean().optional()

\* schemas.ts PlanSchema; budget stands for budget.maxSteps
PlanSchemaOk(c) ==
    /\ c.kind = "object"
    /\ Len(c.steps) >= 1 /\ Len(c.steps) <= MaxPlanSteps
    /\ \A k \in 1 .. Len(c.steps) : PlanStepOk(c.steps[k])
    /\ c.specialist \in Specialists \cup {Absent}
    /\ c.budget = NoBudget \/ (1 <= c.budget /\ c.budget <= MaxPlanSteps)

\* z.object() strips the keys it does not name, at the plan and in each step
Stripped(c) ==
    [c EXCEPT !.extra = FALSE,
              !.steps = [k \in 1 .. Len(c.steps) |->
                            [c.steps[k] EXCEPT !.extra = FALSE]]]

\* PlanSchema.safeParse
safeParse(c) ==
    IF PlanSchemaOk(c) THEN Ok(Stripped(c)) ELSE Failed("invalid")

\* validatePlan: the parsed data, or a throw (ok = FALSE)
validatePlan(c) == safeParse(c)

\* mutant: every pause flag but the last is cleared
normalizePauses_KeepLast(p) ==
    [p EXCEPT !.steps =
        [k \in 1 .. Len(p.steps) |->
            IF /\ Truthy(p.steps[k].pauseForUser)
               /\ \A m \in k + 1 .. Len(p.steps) : ~Truthy(p.steps[m].pauseForUser)
            THEN p.steps[k]
            ELSE [p.steps[k] EXCEPT !.pauseForUser = "false"]]]

\* normalizePauses(plan, "first"): the first truthy flag is kept, every other
\* step gets pauseForUser: false
normalizePauses(p) ==
    [p EXCEPT !.steps =
        [k \in 1 .. Len(p.steps) |->
            IF /\ Truthy(p.steps[k].pauseForUser)
               /\ \A m \in 1 .. k - 1 : ~Truthy(p.steps[m].pauseForUser)
            THEN p.steps[k]
            ELSE [p.steps[k] EXCEPT !.pauseForUser = "false"]]]

\* buildPlan from the model's output on: PlanSchema.safeParse, a throw when
\* it fails, normalizePauses(ok.data, "first") otherwise
buildFrom(c) ==
    IF safeParse(c).ok
    THEN Ok(normalizePauses(safeParse(c).data))
    ELSE Failed("invalid")

\* ----------------------------------------------------------- plan store
\* lib/obs.ts: const store = new Map<string, PlanRecord>(). A record keeps the
\* plan and the step logs (model and createdAt play no part here).
FreshIds == <<"u1", "u2", "u3", "u4">>     \* what crypto.randomUUID() returns
ForgedId == "x1"                          \* an id a client makes up
PlanIds == {FreshIds[k] : k \in 1 .. Len(FreshIds)} \cup {ForgedId}

NoRecord == [present |-> FALSE, plan |-> NoPlan, steps |-> <<>>]

\* store.set(planId, { ...rec, steps: rec.steps ?? [] })
recordPlan(st, id, p) ==
    [st EXCEPT ![id] = [present |-> TRUE, plan |-> p, steps |-> <<>>]]

\* const rec = store.get(planId); if (!rec) return; rec.steps.push(...logs)
appendSteps(st, id, ls) ==
    IF st[id].present THEN [st EXCEPT ![id].steps = @ \o ls] ELSE st

\* store.get(planId)
getPlan(st, id) == st[id]

\* ------------------------------------------------------- request handler
NoRequest ==
    [body |-> "none", approve |-> FALSE, plan |-> NoPlan, hasPlan |-> FALSE,
     planId |-> Absent]

\* a response: its HTTP status and the keys of its JSON body, with the values
\* of planId, draftPlan, plan and actions when the body has them
NoResponse ==
    [kind |-> "none", status |-> 0, keys |-> {}, planId |-> Absent,
     draftPlan |-> NoPlan, plan |-> <<>>, actions |-> <<>>]

NoTraffic ==
    /\ bout = NoOutcome
    /\ store = [id \in PlanIds |-> NoRecord]
    /\ rpc = "idle" /\ req = NoRequest /\ planId = Absent
    /\ validated = NoOutcome /\ response = NoResponse /\ nreq = 0
    /\ nresp = 0 /\ genCalls = 0 /\ orphans = 0

\* executePlan({ plan, ctx, timeoutMs: 10_000, maxRetries: 1, startIndex: 0,
\*               honorPause: !approve, prependClear: true })
RouteMaxRetries == 1
RouteOptions(approve) ==
    [startIndex |-> 0, hardMaxSteps |-> NoLimit, maxRetries |-> RouteMaxRetries,
     honorPause |-> ~approve, prependClear |-> TRUE, alreadyExecuted |-> {}]

\* mutant: only the first step is looked at
hasPause_FirstStepOnly(p) == Len(p.steps) > 0 /\ Truthy(p.steps[1].pauseForUser)

\* execPlan.steps.some((s) => s.pauseForUser)
hasPause(p) == \E k \in 1 .. Len(p.steps) : Truthy(p.steps[k].pauseForUser)

\* the tools of the planner's documented example plan, by position
ExampleTools == <<"map.focus", "map.drawRoute", "map.addMarkers">>

\* the args a step of that plan carries: a route description or nothing
ArgsOf(tool) == IF tool = "map.drawRoute" THEN "route" ELSE "empty"

\* ---- the candidates tried
MaxCandSteps == 3

GoodStep ==
    [id |-> "s1", tool |-> "map.focus", args |-> "empty", why |-> Absent,
     pauseForUser |-> Absent, extra |-> FALSE]

\* a good step and its one-field departures
StepCands ==
    {GoodStep}
    \cup {[GoodStep EXCEPT !.id = x] : x \in {"", "s2"}}
    \cup {[GoodStep EXCEPT !.tool = x] : x \in {"map.addMarkers", "map.zoom"}}
    \cup {[GoodStep EXCEPT !.tool = "map.drawRoute", !.args = "route"]}
    \cup {[GoodStep EXCEPT !.args = x] : x \in {"array", Absent}}
    \cup {[GoodStep EXCEPT !.why = x] : x \in {"text", BadType}}
    \cup {[GoodStep EXCEPT !.pauseForUser = x] : x \in {"true", "false", BadType}}
    \cup {[GoodStep EXCEPT !.extra = TRUE]}

PlanOf(ss) ==
    [kind |-> "object", steps |-> ss, specialist |-> Absent, budget |-> NoBudget,
     extra |-> FALSE]

\* plan-level departures of a candidate
PlanCands(ss) ==
    {PlanOf(ss)}
    \cup {[PlanOf(ss) EXCEPT !.kind = "other"]}
    \cup {[PlanOf(ss) EXCEPT !.specialist = x] : x \in {"navigator", "pilot"}}
    \cup {[PlanOf(ss) EXCEPT !.budget = x] : x \in {1, MaxPlanSteps, MaxPlanSteps + 1}}
    \cup {[PlanOf(ss) EXCEPT !.extra = TRUE]}

\* long candidates around the limit of 50 steps
LongCands ==
    UNION {PlanCands([k \in 1 .. n |-> GoodStep]) :
                    n \in {MaxPlanSteps - 1, MaxPlanSteps, MaxPlanSteps + 1}}
    \cup {PlanOf([k \in 1 .. MaxPlanSteps |->
                    IF k = MaxPlanSteps THEN [GoodStep EXCEPT !.tool = "map.zoom"]
                    ELSE GoodStep])}

PlanInit == Idle /\ NoCandidate /\ NoTraffic

\* a candidate arrives: a short one of any mix of steps, or a long one
Submit ==
    /\ vpc = "start"
    /\ \/ \E n \in 0 .. MaxCandSteps : \E ss \in [1 .. n -> StepCands] :
            \E c \in PlanCands(ss) : cand' = c
       \/ \E c \in LongCands : cand' = c
    /\ vpc' = "submitted"
    /\ UNCHANGED <<vout, vout2>>
    /\ UNCHANGED <<evars, rvars>>

\* validatePlan(candidate)
Validate ==
    /\ vpc = "submitted"
    /\ vout' = validatePlan(cand)
    /\ vpc' = "validated"
    /\ UNCHANGED <<cand, vout2>>
    /\ UNCHANGED <<evars, rvars>>

\* validatePlan applied to the plan it returned
Revalidate ==
    /\ vpc = "validated" /\ vout.ok
    /\ vout2' = validatePlan(vout.data)
    /\ vpc' = "revalidated"
    /\ UNCHANGED <<cand, vout>>
    /\ UNCHANGED <<evars, rvars>>

PlanNext == Submit \/ Validate \/ Revalidate

PlanSpec == PlanInit /\ [][PlanNext]_vars

\* --------------------------------------------- the executor on its own
\* The executor treats every tool alike; the plans it is run on take their
\* tools, by position, from one of these sequences: the planner's documented
\* shape (focus, drawRoute, addMarkers, ...) and two routes in a row.
ToolSeqs ==
    {ExampleTools \o <<"rag.search", "map.focus">>,
     <<"map.drawRoute", "map.drawRoute", "map.focus", "map.addMarkers", "rag.search">>}


\* the args of step k: a route step that opens the plan brings its own
\* geojson and nothing else, a later one names stages or start/end
ArgsAt(tl, k) ==
    IF tl[k] = "map.drawRoute" /\ k > 1 THEN "route" ELSE "empty"

\* valid plans of 1..MaxSteps steps; budget is budget.maxSteps or NoBudget
ExecPlans ==
    UNION {
        {[steps |-> [k \in 1 .. n |->
                        [id |-> StepIds[k], tool |-> tl[k], args |-> ArgsAt(tl, k),
                         pauseForUser |-> pf[k]]],
          budget |-> b] :
            tl \in ToolSeqs,
            pf \in [1 .. n -> {"absent", "true"}],
            b \in {NoBudget, 1}} :
        n \in 1 .. MaxSteps}

\* the options of a pass; alreadyExecuted names at most one step
ExecOptions(p) ==
    [startIndex : 0 .. Len(p.steps),
     hardMaxSteps : {NoLimit} \cup (0 .. Len(p.steps)),
     maxRetries : 0 .. MaxRetries,
     honorPause : BOOLEAN,
     prependClear : BOOLEAN,
     alreadyExecuted : {{}} \cup {{p.steps[k].id} : k \in 1 .. Len(p.steps)}]

ExecInit == Idle /\ NoCandidate /\ NoTraffic

Execute ==
    /\ epc = "idle"
    /\ \E p \in ExecPlans : \E o \in ExecOptions(p) : StartExecute(p, o)
    /\ UNCHANGED <<pvars, rvars>>

ExecNext == Execute \/ LoopSkip \/ AttemptOk \/ AttemptFail \/ LoopExit

ExecSpec == ExecInit /\ [][ExecNext]_vars

\* ------------------------------------------- itineraries and markers
\* Coordinates are in units of 1e-5 degree. A leg is { day, from, to, km?,
\* toLat?, toLon?, fromLat?, fromLon? }, a marker { lat, lon, title?,
\* subtitle? }, a UI action { type, replace?, markers? }.
NoCoord == 99999999     \* a coordinate that is undefined
NoKm == 0               \* km that is undefined (or 0: both are falsy)

\* an Itinerary | null
NullItinerary == [isNull |-> TRUE, legs |-> <<>>]
Some(legs) == [isNull |-> FALSE, legs |-> legs]

\* a subtitle: "Day <day> · <km>", or none
NoSubtitle == [day |-> -1, km |-> NoKm]

\* `Overnight ${i + 1}`
Overnight == <<"Overnight 1", "Overnight 2", "Overnight 3", "Overnight 4",
               "Overnight 5", "Overnight 6">>

\* route.ts DEMO_ITINERARY (km in units of 0.1 km)
DEMO_ITINERARY ==
    <<[day |-> 1, from |-> "Sarria", to |-> "Portomarin", km |-> 220,
       toLat |-> 4278120, toLon |-> -741430,
       fromLat |-> NoCoord, fromLon |-> NoCoord],
      [day |-> 2, from |-> "Arzua", to |-> "Santiago de Compostela", km |-> 390,
       toLat |-> 4288060, toLon |-> -854490,
       fromLat |-> NoCoord, fromLon |-> NoCoord]>>

\* an action that is not a marker action
Plain(type) == [type |-> type, replace |-> FALSE, markers |-> <<>>]

\* x.toFixed(4) of a coordinate: the sign character and the digits, in units
\* of 1e-4 degree. The magnitude is rounded, a tie going up, and the minus
\* sign of a negative x is kept even when the digits are all zero.
toFixed4(x) ==
    IF x < 0 THEN <<"-", (5 - x) \div 10>> ELSE <<"", (x + 5) \div 10>>

\* `${m.lat.toFixed(4)},${m.lon.toFixed(4)}`
MarkerKey(m) == <<toFixed4(m.lat), toFixed4(m.lon)>>

\* the marker lists of the drawMarkers actions, in order, end to end
RECURSIVE MarkerLists(_)
MarkerLists(acts) ==
    IF acts = <<>> THEN <<>>
    ELSE (IF Head(acts).type = "drawMarkers" THEN Head(acts).markers ELSE <<>>)
         \o MarkerLists(Tail(acts))

\* the first marker of every key, in first-seen order
RECURSIVE Merged(_, _)
Merged(ms, seen) ==
    IF ms = <<>> THEN <<>>
    ELSE IF MarkerKey(Head(ms)) \in seen THEN Merged(Tail(ms), seen)
         ELSE <<Head(ms)>> \o Merged(Tail(ms), seen \cup {MarkerKey(Head(ms))})

\* coalesceMarkers: null when no action is a drawMarkers action
coalesceMarkers(acts) ==
    IF \A n \in 1 .. Len(acts) : acts[n].type # "drawMarkers"
    THEN [isNull |-> TRUE, markers |-> <<>>]
    ELSE [isNull |-> FALSE, markers |-> Merged(MarkerLists(acts), {})]

\* mutant: a leg starts where it ends, at its own marker
itineraryFromMarkers_OwnTitle(ms) ==
    [k \in 1 .. Len(ms) |->
        [day |-> k,
         from |-> IF k = 1 THEN "Start"
                  ELSE IF ms[k].title # Absent THEN ms[k].title
                  ELSE "Previous",
         to |-> IF ms[k].title # Absent THEN ms[k].title ELSE Overnight[k],
         km |-> NoKm,
         toLat |-> ms[k].lat, toLon |-> ms[k].lon,
         fromLat |-> NoCoord, fromLon |-> NoCoord]]

\* itineraryFromMarkers
itineraryFromMarkers(ms) ==
    [k \in 1 .. Len(ms) |->
        [day |-> k,
         from |-> IF k = 1 THEN "Start"
                  ELSE IF ms[k - 1].title # Absent THEN ms[k - 1].title
                  ELSE "Previous",
         to |-> IF ms[k].title # Absent THEN ms[k].title ELSE Overnight[k],
         km |-> NoKm,
         toLat |-> ms[k].lat, toLon |-> ms[k].lon,
         fromLat |-> NoCoord, fromLon |-> NoCoord]]

\* mutant: a start latitude alone is enough for the day-0 marker
markersFromItinerary_LatOnly(it) ==
    [type |-> "drawMarkers", replace |-> TRUE,
     markers |->
        (IF Len(it) > 0 /\ it[1].fromLat # NoCoord
         THEN <<[lat |-> it[1].fromLat, lon |-> it[1].fromLon,
                 title |-> it[1].from, subtitle |-> [day |-> 0, km |-> NoKm]]>>
         ELSE <<>>)
        \o [k \in 1 .. Len(it) |->
                [lat |-> it[k].toLat, lon |-> it[k].toLon, title |-> it[k].to,
                 subtitle |-> [day |-> it[k].day, km |-> it[k].km]]]]

\* mutant: the start marker is pushed whether leg 1 has from-coordinates or not
markersFromItinerary_AlwaysStart(it) ==
    [type |-> "drawMarkers", replace |-> TRUE,
     markers |->
        <<[lat |-> it[1].fromLat, lon |-> it[1].fromLon,
           title |-> it[1].from, subtitle |-> [day |-> 0, km |-> NoKm]]>>
        \o [k \in 1 .. Len(it) |->
                [lat |-> it[k].toLat, lon |-> it[k].toLon, title |-> it[k].to,
                 subtitle |-> [day |-> it[k].day, km |-> it[k].km]]]]

\* markersFromItinerary: a day-0 marker when leg 1 has from-coordinates, then
\* one marker per leg
markersFromItinerary(it) ==
    [type |-> "drawMarkers", replace |-> TRUE,
     markers |->
        (IF Len(it) > 0 /\ it[1].fromLat # NoCoord /\ it[1].fromLon # NoCoord
         THEN <<[lat |-> it[1].fromLat, lon |-> it[1].fromLon,
                 title |-> it[1].from, subtitle |-> [day |-> 0, km |-> NoKm]]>>
         ELSE <<>>)
        \o [k \in 1 .. Len(it) |->
                [lat |-> it[k].toLat, lon |-> it[k].toLon, title |-> it[k].to,
                 subtitle |-> [day |-> it[k].day, km |-> it[k].km]]]]

\* const hasCoords = (it) => Array.isArray(it) && it.length > 0 && it.every(...)
hasCoords(it) ==
    /\ ~it.isNull
    /\ Len(it.legs) > 0
    /\ \A k \in 1 .. Len(it.legs) :
        it.legs[k].toLat # NoCoord /\ it.legs[k].toLon # NoCoord

\* mutant: coordinates are backfilled whenever the leg counts agree
withMarkers_AnyDestinations(acts, it) ==
    LET merged == coalesceMarkers(acts)
        inferred == itineraryFromMarkers(merged.markers)
    IN  IF (it.isNull \/ ~hasCoords(it))
           /\ ~merged.isNull /\ Len(merged.markers) >= 2
        THEN IF it.isNull THEN Some(inferred)
             ELSE IF Len(inferred) = Len(it.legs)
             THEN Some([k \in 1 .. Len(it.legs) |->
                            [it.legs[k] EXCEPT !.toLat = inferred[k].toLat,
                                               !.toLon = inferred[k].toLon]])
             ELSE it
        ELSE it

\* the itinerary after the marker-derived step (route.ts 209-239)
withMarkers(acts, it) ==
    LET merged == coalesceMarkers(acts)
        inferred == itineraryFromMarkers(merged.markers)
        hasVariedDestinations ==
            /\ Len(inferred) > 1
            /\ Cardinality({inferred[k].to : k \in 1 .. Len(inferred)}) > 1
    IN  IF (it.isNull \/ ~hasCoords(it))
           /\ ~merged.isNull /\ Len(merged.markers) >= 2
        THEN IF it.isNull THEN Some(inferred)
             ELSE IF hasVariedDestinations /\ Len(inferred) = Len(it.legs)
             THEN Some([k \in 1 .. Len(it.legs) |->
                            [it.legs[k] EXCEPT !.toLat = inferred[k].toLat,
                                               !.toLon = inferred[k].toLon]])
             ELSE it
        ELSE it

\* result.actions.filter(a => a?.type !== type)
RECURSIVE ActionsNot(_, _)
ActionsNot(acts, type) ==
    IF acts = <<>> THEN <<>>
    ELSE (IF Head(acts).type # type THEN <<Head(acts)>> ELSE <<>>)
         \o ActionsNot(Tail(acts), type)

\* mutant: the tools' marker actions stay in front of the synthesized one
reconcile_KeepsMarkers(acts, it) ==
    LET it1 == withMarkers(acts, it)
        final == IF it1.isNull THEN Some(DEMO_ITINERARY) ELSE it1
    IN  [plan |-> final.legs,
         actions |-> IF hasCoords(final)
                     THEN acts \o <<markersFromItinerary(final.legs)>>
                     ELSE acts]

\* steps 4 of POST: the itinerary and the actions of the response, from what
\* executePlan returned
reconcile(acts, it) ==
    LET it1 == withMarkers(acts, it)
        final == IF it1.isNull THEN Some(DEMO_ITINERARY) ELSE it1
    IN  [plan |-> final.legs,
         actions |-> IF hasCoords(final)
                     THEN ActionsNot(acts, "drawMarkers")
                          \o <<markersFromItinerary(final.legs)>>
                     ELSE acts]

\* ------------------------------------------------- the request handler
MaxRequests == 2     \* requests served in one run

\* steps in the planner's documented shape, with the given pause flags
ShapeSteps(n, pf) ==
    [k \in 1 .. n |->
        [id |-> StepIds[k], tool |-> ExampleTools[k],
         args |-> ArgsOf(ExampleTools[k]), why |-> Absent,
         pauseForUser |-> pf[k], extra |-> FALSE]]

\* what the model may return as JSON: the documented example with any pause
\* flags, and outputs that the schema rejects or strips
ModelOutputs ==
    {PlanOf(ShapeSteps(Len(ExampleTools), pf)) :
        pf \in [1 .. Len(ExampleTools) -> {Absent, "true"}]}
    \cup {PlanOf(<<>>),
          PlanOf(<<[GoodStep EXCEPT !.tool = "map.zoom"]>>),
          [PlanOf(<<[GoodStep EXCEPT !.extra = TRUE]>>) EXCEPT !.extra = TRUE]}

\* what a client may send as its inline plan
ClientPlans ==
    {PlanOf(ShapeSteps(1, <<Absent>>)),
     PlanOf(ShapeSteps(2, <<"true", "true">>)),
     PlanOf(<<[GoodStep EXCEPT !.args = "array"]>>)}

\* ids handed out so far: the only stored ids a client can know
Issued == {FreshIds[k] : k \in 1 .. nreq}

\* the bodies that reach the build-or-resume branch: a chat turn, with the
\* id of an earlier draft or none; an approval, with an id, an inline plan,
\* both or neither
Requests ==
    {[body |-> "ok", approve |-> FALSE, plan |-> NoPlan, hasPlan |-> FALSE,
      planId |-> id] : id \in Issued \cup {Absent}}
    \cup {[body |-> "ok", approve |-> TRUE, plan |-> NoPlan, hasPlan |-> FALSE,
           planId |-> id] : id \in Issued \cup {Absent, ForgedId}}
    \cup {[body |-> "ok", approve |-> TRUE, plan |-> c, hasPlan |-> TRUE,
           planId |-> id] :
            c \in ClientPlans, id \in Issued \cup {Absent, ForgedId}}

\* if (approve && (resumePlanId || planFromClient))
Resumes(r) == r.approve /\ (r.planId # Absent \/ r.hasPlan)

\* let planId = resumePlanId ?? crypto.randomUUID()
planIdOf(r) == IF r.planId # Absent THEN r.planId ELSE FreshIds[nreq + 1]

\* mutant: the resume path hands the plan on as it came
resumePlan_Unvalidated(st, r) ==
    LET rec == IF r.planId # Absent THEN getPlan(st, r.planId) ELSE NoRecord
    IN  IF rec.present THEN Ok(rec.plan)
        ELSE IF r.hasPlan THEN Ok(r.plan)
        ELSE Failed("invalid")

\* mutant: the inline plan is taken before the stored one
resumePlan_InlineFirst(st, r) ==
    LET rec == IF r.planId # Absent THEN getPlan(st, r.planId) ELSE NoRecord
    IN  IF r.hasPlan THEN validatePlan(r.plan)
        ELSE IF rec.present THEN validatePlan(rec.plan)
        ELSE Failed("invalid")

\* const rec = resumePlanId ? getPlan(resumePlanId) : undefined;
\* execPlan = rec?.plan ?? planFromClient; execPlan = validatePlan(execPlan)
resumePlan(st, r) ==
    LET rec == IF r.planId # Absent THEN getPlan(st, r.planId) ELSE NoRecord
    IN  IF rec.present THEN validatePlan(rec.plan)
        ELSE IF r.hasPlan THEN validatePlan(r.plan)
        ELSE Failed("invalid")

\* req.json() throws, or messages is not an array
ReceiveBad ==
    /\ rpc = "idle" /\ nreq < MaxRequests
    /\ \E b \in {"unparseable", "noMessages"} :
        /\ req' = [NoRequest EXCEPT !.body = b]
        /\ rpc' = IF b = "unparseable" THEN "sorry" ELSE "missingMessages"
    /\ nreq' = nreq + 1
    /\ UNCHANGED <<planId, validated, bout, store, response, evars, pvars>>
    /\ UNCHANGED <<nresp, genCalls, orphans>>

\* the resume path, up to executePlan's first await
ReceiveResume ==
    /\ rpc = "idle" /\ nreq < MaxRequests
    /\ \E r \in Requests :
        /\ Resumes(r)
        /\ req' = r
        /\ planId' = planIdOf(r)
        /\ validated' = resumePlan(store, r)
        /\ IF validated'.ok
           THEN /\ StartExecute(validated'.data, RouteOptions(r.approve))
                /\ rpc' = "executing"
           ELSE /\ rpc' = "invalidOrExpired"
                /\ UNCHANGED evars
    /\ nreq' = nreq + 1
    /\ UNCHANGED <<bout, store, response, pvars>>
    /\ UNCHANGED <<nresp, genCalls, orphans>>

\* the build path, up to await withTimeout(buildPlan(...)); buildPlan has
\* run to its await client.responses.create(...)
ReceiveBuild ==
    /\ rpc = "idle" /\ nreq < MaxRequests
    /\ \E r \in Requests :
        /\ ~Resumes(r)
        /\ req' = r
        /\ planId' = planIdOf(r)
    /\ rpc' = "planning"
    /\ nreq' = nreq + 1
    /\ genCalls' = 1
    /\ UNCHANGED <<validated, bout, store, response, evars, pvars>>
    /\ UNCHANGED <<nresp, orphans>>

\* planner.ts 173-189: client.responses.create is called without the signal
\* buildPlan was given ("signal not supported in withOptions")
SignalPassed == FALSE

\* the generative requests the handler's ac.abort() leaves running
LeftRunning(why) == IF why = "timeout" /\ ~SignalPassed THEN 1 ELSE 0

\* buildPlan settles (a JSON output, an empty or non-JSON output, a throw of
\* the call) or the planner timeout fires; then validatePlan, recordPlan, the
\* pause check, and executePlan up to its first await. buildPlan parses once
\* and issues no further request.
PlannerReturns ==
    /\ rpc = "planning"
    /\ \/ \E c \in ModelOutputs :
            cand' = c /\ bout' = buildFrom(c) /\ orphans' = orphans
       \/ \E why \in {"throw", "nonJson", "timeout"} :
            /\ cand' = NoPlan /\ bout' = Failed(why)
            /\ orphans' = orphans + LeftRunning(why)
    /\ validated' = IF bout'.ok THEN validatePlan(bout'.data) ELSE bout'
    /\ IF validated'.ok
       THEN /\ store' = recordPlan(store, planId, validated'.data)
            /\ IF hasPause(validated'.data) /\ ~req.approve
               THEN /\ rpc' = "draft"
                    /\ UNCHANGED evars
               ELSE /\ StartExecute(validated'.data, RouteOptions(req.approve))
                    /\ rpc' = "executing"
       ELSE /\ rpc' = "fallback"
            /\ UNCHANGED <<store, evars>>
    /\ UNCHANGED <<req, planId, nreq, response, vpc, vout, vout2>>
    /\ UNCHANGED <<nresp, genCalls>>

\* mutant: the handler's failures surface as an error status with no reply
ResponseBody_RawError ==
    [kind |-> IF rpc = "executing" THEN "executed" ELSE rpc,
     status |-> IF rpc \in {"sorry", "fallback", "invalidOrExpired"}
                THEN 500 ELSE 200,
     keys |-> CASE rpc \in {"sorry", "fallback", "invalidOrExpired"} -> {"error"}
                [] rpc = "missingMessages" -> {"reply"}
                [] rpc = "draft" -> {"planId", "draftPlan", "reply"}
                [] OTHER -> {"planId", "reply", "plan", "actions"},
     planId |-> planId,
     draftPlan |-> IF rpc = "draft" THEN validated.data ELSE NoPlan,
     plan |-> IF rpc = "fallback" THEN DEMO_ITINERARY ELSE <<>>,
     actions |-> IF rpc = "fallback"
                 THEN <<markersFromItinerary(DEMO_ITINERARY)>> ELSE <<>>]

\* ok(body) of the return the handler has reached. For an executed plan the
\* body has plan and actions, which step 4 (reconcile) computes from what the
\* executor returned; their values are kept for the fallback only.
ResponseBody ==
    [kind |-> IF rpc = "executing" THEN "executed" ELSE rpc,
     status |-> 200,
     keys |-> CASE rpc \in {"sorry", "missingMessages"} -> {"reply"}
                [] rpc = "invalidOrExpired" -> {"planId", "reply"}
                [] rpc = "draft" -> {"planId", "draftPlan", "reply"}
                [] OTHER -> {"planId", "reply", "plan", "actions"},
     planId |-> planId,
     draftPlan |-> IF rpc = "draft" THEN validated.data ELSE NoPlan,
     plan |-> IF rpc = "fallback" THEN DEMO_ITINERARY ELSE <<>>,
     actions |-> IF rpc = "fallback"
                 THEN <<markersFromItinerary(DEMO_ITINERARY)>> ELSE <<>>]

\* the handler returns its JSON body: after executePlan has returned,
\* appendSteps comes first; nothing of the request outlives the response
Respond ==
    /\ rpc \notin {"idle", "planning"}
    /\ rpc = "executing" => epc = "done"
    /\ store' = IF rpc = "executing"
                THEN appendSteps(store, planId, result.logs) ELSE store
    /\ response' = ResponseBody
    /\ rpc' = "idle"
    /\ req' = NoRequest /\ planId' = Absent
    /\ validated' = NoOutcome /\ bout' = NoOutcome /\ cand' = NoPlan
    /\ plan' = NoPlan /\ opts' = NoOptions /\ epc' = "idle" /\ i' = 0
    /\ attempt' = 0 /\ actions' = <<>> /\ logs' = <<>>
    /\ itinerary' = NoItinerary /\ calls' = <<>> /\ errorMsg' = None
    /\ result' = NoResult
    /\ nresp' = nresp + 1
    /\ genCalls' = 0
    /\ UNCHANGED <<nreq, orphans, vpc, vout, vout2>>

\* a generative request nobody waits for any more ends: it completes, or the
\* client's own timeout (19_500 ms) ends it
OrphanSettles ==
    /\ orphans > 0
    /\ orphans' = orphans - 1
    /\ UNCHANGED <<bout, store, rpc, req, planId, validated, response, nreq,
                   nresp, genCalls>>
    /\ UNCHANGED <<evars, pvars>>

Init == Idle /\ NoCandidate /\ NoTraffic

\* the handler never passes alreadyExecuted, so LoopSkip has no part in it
Next ==
    \/ ReceiveBad \/ ReceiveResume \/ ReceiveBuild \/ PlannerReturns
    \/ AttemptOk \/ AttemptFail \/ LoopExit
    \/ Respond \/ OrphanSettles

Spec == Init /\ [][Next]_vars

\* The handler at its last request of a run, the earlier ones answered: they
\* lacked their messages, or the latest of them built the documented plan
\* with a pause at its second step and left it in the store as a draft.
EarlierDraft ==
    buildFrom(PlanOf(ShapeSteps(Len(ExampleTools), <<Absent, "true", Absent>>))).data

LiveInit ==
    /\ Idle /\ NoCandidate
    /\ bout = NoOutcome /\ validated = NoOutcome
    /\ rpc = "idle" /\ req = NoRequest /\ planId = Absent
    /\ nreq = MaxRequests - 1 /\ nresp = nreq
    /\ genCalls = 0 /\ orphans = 0
    /\ \/ /\ store = [id \in PlanIds |-> NoRecord]
          /\ response = [NoResponse EXCEPT !.kind = "missingMessages",
                                           !.status = 200, !.keys = {"reply"}]
       \/ /\ store = [[id \in PlanIds |-> NoRecord] EXCEPT ![FreshIds[nreq]] =
                        [present |-> TRUE, plan |-> EarlierDraft, steps |-> <<>>]]
          /\ response = [NoResponse EXCEPT
                            !.kind = "draft", !.status = 200,
                            !.keys = {"planId", "draftPlan", "reply"},
                            !.planId = FreshIds[nreq],
                            !.draftPlan = EarlierDraft]

\* Every await of the handler settles: the planner race within 20 s
\* (withTimeout), each tool attempt within timeoutMs (withTimeout); the code
\* between awaits runs to its end.
LiveSpec ==
    /\ LiveInit /\ [][Next]_vars
    /\ WF_vars(PlannerReturns)
    /\ WF_vars(AttemptOk \/ AttemptFail)
    /\ WF_vars(LoopExit)
    /\ WF_vars(Respond)

\* ------------------------------------- step 4 of POST on its own
\* What executePlan can hand to step 4: the UI actions of the tools that ran
\* (tools never set replace) and an itinerary or null.
MaxActs == 3      \* actions in an executor result
MaxLegs == 2      \* legs in an executor result's itinerary

\* two places 1e-5 degree apart share a toFixed(4) key
MkMelide == [lat |-> 4291420, lon |-> -801290, title |-> "Melide",
             subtitle |-> NoSubtitle]
MkMelideNear == [lat |-> 4291421, lon |-> -801290, title |-> "Melide centre",
                 subtitle |-> NoSubtitle]
MkArzua == [lat |-> 4292900, lon |-> -815850, title |-> "Arzua",
            subtitle |-> NoSubtitle]
MkUntitled == [lat |-> 4288060, lon |-> -854490, title |-> Absent,
               subtitle |-> NoSubtitle]

\* the spec's example: two places within 1e-4 degree and a third apart
MkObradoiro == [lat |-> 4288061, lon |-> -854491, title |-> "Obradoiro",
                subtitle |-> NoSubtitle]
MkObradoiroNear == [lat |-> 4288064, lon |-> -854489, title |-> "Cathedral",
                    subtitle |-> NoSubtitle]
MkMonte == [lat |-> 4289000, lon |-> -855000, title |-> "Monte do Gozo",
            subtitle |-> NoSubtitle]
\* two places 2e-5 degree apart, one on each side of the prime meridian
MkEast == [lat |-> 4288000, lon |-> 1, title |-> "East", subtitle |-> NoSubtitle]
MkWest == [lat |-> 4288000, lon |-> -1, title |-> "West", subtitle |-> NoSubtitle]

\* a second place that goes by the name of the first
MkMelideTwin == [lat |-> 4291900, lon |-> -801900, title |-> "Melide",
                 subtitle |-> NoSubtitle]

\* { type: "drawMarkers", markers } as a tool emits it
DrawMarkers(ms) == [type |-> "drawMarkers", replace |-> FALSE, markers |-> ms]

ReconActionPool ==
    {Plain("clearRoute"), Plain("focus"), Plain("drawRoute"),
     DrawMarkers(<<>>), DrawMarkers(<<MkMelide>>),
     DrawMarkers(<<MkMelide, MkArzua>>),
     DrawMarkers(<<MkMelide, MkMelideNear>>),
     DrawMarkers(<<MkArzua, MkUntitled>>),
     DrawMarkers(<<MkObradoiro, MkObradoiroNear, MkMonte>>),
     DrawMarkers(<<MkEast, MkWest>>),
     DrawMarkers(<<MkMelide, MkMelideTwin>>)}

ReconActions ==
    UNION {[1 .. n -> ReconActionPool] : n \in 0 .. MaxActs}

\* the leg of day k: with or without destination coordinates; the first leg
\* with both, one or none of its start coordinates
ReconLegs(k) ==
    {[day |-> k,
      from |-> IF k = 1 THEN "Sarria" ELSE "Previous",
      to |-> IF k = 1 THEN "Portomarin" ELSE "Palas de Rei",
      km |-> IF k = 1 THEN 222 ELSE NoKm,
      toLat |-> IF c THEN 4280750 + k ELSE NoCoord,
      toLon |-> IF c THEN -761530 - k ELSE NoCoord,
      fromLat |-> IF f \in {"both", "latOnly"} THEN 4278120 ELSE NoCoord,
      fromLon |-> IF f = "both" THEN -741430 ELSE NoCoord] :
        c \in BOOLEAN,
        f \in IF k = 1 THEN {"none", "both", "latOnly"} ELSE {"none"}}

ReconItineraries ==
    {NullItinerary}
    \cup UNION {{Some(ls) :
                    ls \in {q \in [1 .. n -> UNION {ReconLegs(k) : k \in 1 .. n}] :
                                \A k \in 1 .. n : q[k].day = k}} :
                n \in 0 .. MaxLegs}

\* ok({ planId, reply, plan: itinerary, actions: actionsOut })
ExecutedBody(id, out) ==
    [NoResponse EXCEPT !.kind = "executed", !.status = 200,
                       !.keys = {"planId", "reply", "plan", "actions"},
                       !.planId = id, !.plan = out.plan,
                       !.actions = out.actions]

\* executePlan has just returned to the handler
ReconInit ==
    /\ NoCandidate
    /\ plan = NoPlan /\ opts = NoOptions /\ epc = "done" /\ i = 0 /\ attempt = 0
    /\ actions = <<>> /\ logs = <<>> /\ itinerary = NoItinerary /\ calls = <<>>
    /\ errorMsg = None
    /\ \E acts \in ReconActions : \E it \in ReconItineraries :
        result = [actions |-> acts, nextIndex |-> 0, paused |-> FALSE,
                  logs |-> <<>>, itinerary |-> it]
    /\ bout = NoOutcome /\ validated = NoOutcome
    /\ store = [id \in PlanIds |-> NoRecord]
    /\ rpc = "executing" /\ req = NoRequest /\ planId = FreshIds[1]
    /\ response = NoResponse /\ nreq = 1 /\ nresp = 0
    /\ genCalls = 0 /\ orphans = 0

\* step 4 and the final return; what the executor returned is kept for
\* comparison
Reconcile ==
    /\ rpc = "executing" /\ epc = "done"
    /\ response' = ExecutedBody(planId, reconcile(result.actions, result.itinerary))
    /\ rpc' = "idle"
    /\ nresp' = nresp + 1
    /\ UNCHANGED <<bout, store, req, planId, validated, nreq, genCalls, orphans>>
    /\ UNCHANGED <<evars, pvars>>

ReconNext == Reconcile

ReconSpec == ReconInit /\ [][ReconNext]_vars

\* ------------------------------------------------ the tools (toolRegistry)
\* Place names are written without accents ("Portomarin" is the table's
\* Portomarín) and in the table's case; the unaccented spelling variants of
\* the source are not separate names here. Distances are in units of 0.1 km.
\* Values computed once in the source are handed on as parameters.
Town(name, lat, lon, km) ==
    [name |-> name, lat |-> lat, lon |-> lon, kmFromSantiago |-> km]

\* lib/stages/frances.ts
FRANCES_LAST100 ==
    <<Town("Sarria", 4278120, -741430, 1150),
      Town("Barbadelo", 4279450, -743870, 1104),
      Town("Rente", 4281230, -747210, 1068),
      Town("Mercadoiro", 4281560, -752340, 1019),
      Town("Portomarin", 4280750, -761530, 928),
      Town("Gonzar", 4282540, -768910, 832),
      Town("Castromaior", 4284210, -772340, 776),
      Town("Hospital da Cruz", 4285870, -778120, 721),
      Town("Palas de Rei", 4287410, -786870, 677),
      Town("Casanova", 4289230, -792340, 612),
      Town("Porto de Bois", 4290340, -796450, 569),
      Town("Melide", 4291420, -801290, 523),
      Town("Boente", 4291780, -805670, 461),
      Town("Castaneda", 4292340, -808910, 418),
      Town("Ribadiso da Baixo", 4292670, -812340, 372),
      Town("Arzua", 4292900, -815850, 335),
      Town("Pedrouzo", 4289710, -821560, 249),
      Town("A Rua", 4290340, -825670, 196),
      Town("O Pedrouzo", 4289710, -837730, 142),
      Town("Amenal", 4288340, -841230, 93),
      Town("San Paio", 4287890, -845670, 56),
      Town("Santiago de Compostela", 4288060, -854490, 0)>>

\* a lookup's outcome: a point ("hit"), null ("miss"), or the await rejects
\* or outlasts the attempt ("fail")
Found(lat, lon) == [status |-> "hit", lat |-> lat, lon |-> lon]
NoPoint == [status |-> "miss", lat |-> NoCoord, lon |-> NoCoord]
Unreachable == [status |-> "fail", lat |-> NoCoord, lon |-> NoCoord]

\* what the geocoding service does with a name it is asked about
Nets == {"found", "none", "fail"}

\* lib/geo.ts SEED, the warm cache
SEED ==
    [n \in {"Sarria", "Portomarin", "Palas de Rei", "Arzua", "O Pedrouzo",
            "Pedrouzo", "Santiago de Compostela", "Santiago"} |->
        CASE n = "Sarria" -> Found(4278120, -741430)
          [] n = "Portomarin" -> Found(4280750, -761530)
          [] n = "Palas de Rei" -> Found(4287410, -786870)
          [] n = "Arzua" -> Found(4292900, -815850)
          [] n \in {"O Pedrouzo", "Pedrouzo"} -> Found(4289710, -837730)
          [] OTHER -> Found(4288060, -854490)]

\* geocodeOnline: the cache, else the service
geocodeOnline(query, net) ==
    IF query \in DOMAIN SEED THEN SEED[query]
    ELSE CASE net = "found" -> Found(4250000, -800000)
           [] net = "none" -> NoPoint
           [] OTHER -> Unreachable

\* Array.prototype.find / findIndex: the first index that passed, 0 if none
FirstOf(hits) ==
    IF hits = {} THEN 0 ELSE CHOOSE k \in hits : \A m \in hits : k <= m

\* a.toLowerCase().includes(b.toLowerCase()), for the names of this model
Includes(a, b) ==
    \/ a = b
    \/ b = ""
    \/ <<a, b>> \in {<<"Santiago de Compostela", "Santiago">>,
                     <<"O Pedrouzo", "Pedrouzo">>,
                     <<"Palas de Rei", "Palas">>}

\* lookupTownCoords' table of common variations
Variations ==
    [n \in {"Santiago", "Pedrouzo", "Palas"} |->
        CASE n = "Santiago" -> "Santiago de Compostela"
          [] n = "Pedrouzo" -> "O Pedrouzo"
          [] OTHER -> "Palas de Rei"]

\* FRANCES_LAST100.findIndex(t => t.name.toLowerCase() === name.toLowerCase())
TownIndex(name) ==
    FirstOf({k \in 1 .. Len(FRANCES_LAST100) : FRANCES_LAST100[k].name = name})

\* FRANCES_LAST100.find(t => t.name includes name || name includes t.name)
PartialIndex(name) ==
    FirstOf({k \in 1 .. Len(FRANCES_LAST100) :
                \/ Includes(FRANCES_LAST100[k].name, name)
                \/ Includes(name, FRANCES_LAST100[k].name)})

\* FRANCES_LAST100.find(t => t.name === variations[cleanName])
VariationIndex(name) ==
    IF name \in DOMAIN Variations THEN TownIndex(Variations[name]) ELSE 0

\* a || b || c on indices
FirstFound(a, b, c) == IF a > 0 THEN a ELSE IF b > 0 THEN b ELSE c

\* if (town) return { lat: town.lat, lon: town.lon }
PointOf(town) == Found(town.lat, town.lon)

\* ... return await geocodeOnline(name)
TownOrGeocode(k, name, net) ==
    IF k > 0 THEN PointOf(FRANCES_LAST100[k]) ELSE geocodeOnline(name, net)

\* lookupTownCoords: exact name, then a partial match either way, then a
\* variation, then the geocoder
lookupTownCoords(name, net) ==
    TownOrGeocode(FirstFound(TownIndex(name), PartialIndex(name),
                             VariationIndex(name)),
                  name, net)

\* Math.abs(from.kmFromSantiago - to.kmFromSantiago), null without both towns
KmBetween(f, t) ==
    IF f = 0 \/ t = 0 THEN NoKm
    ELSE IF FRANCES_LAST100[f].kmFromSantiago >= FRANCES_LAST100[t].kmFromSantiago
    THEN FRANCES_LAST100[f].kmFromSantiago - FRANCES_LAST100[t].kmFromSantiago
    ELSE FRANCES_LAST100[t].kmFromSantiago - FRANCES_LAST100[f].kmFromSantiago

\* distanceBetweenTowns: null (NoKm) unless both names are table names
distanceBetweenTowns(fromTown, toTown) ==
    KmBetween(TownIndex(fromTown), TownIndex(toTown))

\* mutant: the slice is returned in table order whichever name comes first
Slice_TableOrder(a, b) ==
    IF a = 0 \/ b = 0 THEN <<>>
    ELSE IF a <= b THEN SubSeq(FRANCES_LAST100, a, b)
    ELSE SubSeq(FRANCES_LAST100, b, a)

\* FRANCES_LAST100.slice(i, j + 1), or slice(j, i + 1).reverse()
Slice(a, b) ==
    IF a = 0 \/ b = 0 THEN <<>>
    ELSE IF a <= b THEN SubSeq(FRANCES_LAST100, a, b)
    ELSE [k \in 1 .. a - b + 1 |-> FRANCES_LAST100[a - k + 1]]

\* townsBetween: the inclusive slice, reversed when start comes after end
townsBetween(startName, endName) ==
    Slice(TownIndex(startName), TownIndex(endName))

\* a geojson value: type, coordinates ([lon, lat] pairs), features, and
\* properties.itinerary (hasItinerary tells an array, possibly empty, from
\* no such property); NoGeojson when the args have none
NoGeojson ==
    [type |-> Absent, coordinates |-> <<>>, features |-> <<>>, itinerary |-> <<>>,
     hasItinerary |-> FALSE]
LineString(coords) ==
    [type |-> "LineString", coordinates |-> coords, features |-> <<>>,
     itinerary |-> <<>>, hasItinerary |-> FALSE]

\* a leg without coordinates
BareLeg(day, from, to, km) ==
    [day |-> day, from |-> from, to |-> to, km |-> km,
     toLat |-> NoCoord, toLon |-> NoCoord, fromLat |-> NoCoord, fromLon |-> NoCoord]

\* a || b on names and on distances
OrElse(a, b) == IF a # Absent THEN a ELSE b
KmOrElse(a, b) == IF a # NoKm THEN a ELSE b

\* return { day: stageIndex + 1, from: fromTown, to: toTown, km: distanceKm }
StageLeg(day, fromTown, toTown, stageKm) ==
    BareLeg(day, fromTown, toTown,
            KmOrElse(distanceBetweenTowns(fromTown, toTown), stageKm))

\* map.drawRoute coerceAsync, stages -> itinerary. Inside the map callback the
\* variable `itinerary` is still undefined, so a later stage without `from`
\* gets "Previous".
StageLegs(a) ==
    [k \in 1 .. Len(a.stages) |->
        StageLeg(k,
                 OrElse(a.stages[k].from,
                        IF k = 1 THEN OrElse(a.start, "Start") ELSE "Previous"),
                 OrElse(a.stages[k].to,
                        IF k = Len(a.stages) THEN OrElse(a.end, "End")
                        ELSE "Unknown"),
                 a.stages[k].distanceKm)]

\* startCoords and endCoords of every leg
StageEnds(legs, net) ==
    [k \in 1 .. Len(legs) |->
        [leg |-> legs[k],
         s |-> lookupTownCoords(legs[k].from, net),
         e |-> lookupTownCoords(legs[k].to, net)]]

\* routeFeatures.push({ type: "Feature", properties, geometry })
Feature(end) ==
    [day |-> end.leg.day, from |-> end.leg.from, to |-> end.leg.to,
     distance |-> end.leg.km,
     coordinates |-> <<<<end.s.lon, end.s.lat>>, <<end.e.lon, end.e.lat>>>>]

\* the features of the legs whose two ends were found
RouteFeatures(ends) ==
    LET both == SelectSeq(ends, LAMBDA x : x.s.status = "hit" /\ x.e.status = "hit")
    IN  [k \in 1 .. Len(both) |-> Feature(both[k])]

FeatureCollection(features) ==
    IF Len(features) > 0
    THEN [type |-> "FeatureCollection", coordinates |-> <<>>,
          features |-> features, itinerary |-> <<>>, hasItinerary |-> FALSE]
    ELSE NoGeojson

\* lines 166-199: the geojson after the per-stage branch, and whether a
\* lookup of it failed
PerStage(a, legs, net) ==
    IF a.geojson = NoGeojson /\ Len(legs) > 1
    THEN LET ends == StageEnds(legs, net)
         IN  [threw |-> \E k \in 1 .. Len(ends) :
                            ends[k].s.status = "fail" \/ ends[k].e.status = "fail",
              geojson |-> FeatureCollection(RouteFeatures(ends))]
    ELSE [threw |-> FALSE, geojson |-> a.geojson]

\* lines 203-214, the single line from start to end
LineOf(routeSegment, startPoint, endPoint) ==
    IF Len(routeSegment) >= 2
    THEN [threw |-> FALSE,
          geojson |-> LineString([k \in 1 .. Len(routeSegment) |->
                                    <<routeSegment[k].lon, routeSegment[k].lat>>])]
    ELSE [threw |-> startPoint.status = "fail" \/ endPoint.status = "fail",
          geojson |-> IF startPoint.status = "hit" /\ endPoint.status = "hit"
                      THEN LineString(<<<<startPoint.lon, startPoint.lat>>,
                                        <<endPoint.lon, endPoint.lat>>>>)
                      ELSE NoGeojson]

\* lines 201-216: the fallback when there is still no geojson
SingleLine(a, g, net) ==
    IF ~g.threw /\ g.geojson = NoGeojson /\ a.start # Absent /\ a.end # Absent
    THEN LineOf(townsBetween(a.start, a.end),
                geocodeOnline(a.start, net), geocodeOnline(a.end, net))
    ELSE g

\* lines 218-229: the itinerary goes under geojson.properties
Prepared(a, g, legs) ==
    [threw |-> g.threw,
     geojson |-> IF g.geojson # NoGeojson /\ Len(legs) > 0
                 THEN [g.geojson EXCEPT !.itinerary = legs, !.hasItinerary = TRUE]
                 ELSE g.geojson,
     meta |-> [startName |-> a.start, endName |-> a.end]]

CoerceWith(a, legs, net) ==
    Prepared(a, SingleLine(a, PerStage(a, legs, net), net), legs)

\* map.drawRoute coerceAsync: threw, or the prepared { geojson, meta }
coerceDrawRoute(a, net) == CoerceWith(a, StageLegs(a), net)

\* DrawRouteInput.safeParse(prepared).success
DrawRouteInput(p) ==
    p.geojson # NoGeojson /\ p.geojson.type \in {"LineString", "Feature"}

\* a tool's outcome: a result { uiActions, itinerary? }, or an error
ToolOk(uiActions, it) == [ok |-> TRUE, uiActions |-> uiActions, itinerary |-> it]
ToolThrew == [ok |-> FALSE, uiActions |-> <<>>, itinerary |-> NullItinerary]

\* lines 313-327: the leg's destination sampled from the polyline
Sampled(day, k, n, coords) ==
    IF Len(coords) < 2 THEN day
    ELSE IF n > 1 /\ Len(coords) >= n
    THEN [day EXCEPT
            !.toLat = coords[Min((k - 1) * (Len(coords) \div n), Len(coords) - 1) + 1][2],
            !.toLon = coords[Min((k - 1) * (Len(coords) \div n), Len(coords) - 1) + 1][1]]
    ELSE [day EXCEPT
            !.toLat = coords[IF k = n THEN Len(coords) ELSE 1][2],
            !.toLon = coords[IF k = n THEN Len(coords) ELSE 1][1]]

\* lines 287-294: the first leg's start coordinates
WithFrom(day, fromCoords) ==
    IF fromCoords.status = "hit"
    THEN [day EXCEPT !.fromLat = fromCoords.lat, !.fromLon = fromCoords.lon]
    ELSE day

\* lines 296-329: the leg's destination coordinates
WithTo(day, townCoords, k, n, coords) ==
    IF day.toLat # NoCoord /\ day.toLon # NoCoord THEN day
    ELSE IF townCoords.status = "hit"
    THEN [day EXCEPT !.toLat = townCoords.lat, !.toLon = townCoords.lon]
    ELSE Sampled(day, k, n, coords)

Resolution(day, fromCoords, townCoords, k, n, coords) ==
    [threw |-> fromCoords.status = "fail" \/ townCoords.status = "fail",
     leg |-> WithTo(WithFrom(day, fromCoords), townCoords, k, n, coords)]

\* map.drawRoute run, the resolution of one leg's coordinates
ResolvedLeg(it, k, coords, net) ==
    Resolution(it[k],
               IF k = 1 /\ (it[k].fromLat = NoCoord \/ it[k].fromLon = NoCoord)
               THEN lookupTownCoords(it[k].from, net) ELSE NoPoint,
               IF it[k].toLat # NoCoord /\ it[k].toLon # NoCoord THEN NoPoint
               ELSE lookupTownCoords(it[k].to, net),
               k, Len(it), coords)

\* lines 235-252: the start and end markers of a line
EndMarkers(coords, meta) ==
    IF Len(coords) >= 2
    THEN <<[type |-> "drawMarkers", replace |-> FALSE,
            markers |->
              <<[lat |-> coords[1][2], lon |-> coords[1][1],
                 title |-> OrElse(meta.startName, "Start"),
                 subtitle |-> NoSubtitle],
                [lat |-> coords[Len(coords)][2], lon |-> coords[Len(coords)][1],
                 title |-> OrElse(meta.endName, "End"),
                 subtitle |-> NoSubtitle]>>]>>
    ELSE <<>>

\* lines 255-275: the stashed itinerary, else one leg from the names
Surfaced(stashed, meta) ==
    IF Len(stashed) > 0 THEN stashed
    ELSE IF meta.startName # Absent \/ meta.endName # Absent
    THEN <<BareLeg(1, OrElse(meta.startName, "Start"),
                   OrElse(meta.endName, "End"), NoKm)>>
    ELSE <<>>

\* return { uiActions: actions, itinerary }
RouteResult(p, resolved) ==
    IF \E k \in 1 .. Len(resolved) : resolved[k].threw THEN ToolThrew
    ELSE ToolOk(<<[type |-> "drawRoute", replace |-> FALSE, markers |-> <<>>,
                   geojson |-> p.geojson]>>
                \o EndMarkers(p.geojson.coordinates, p.meta),
                IF Len(resolved) = 0 /\ ~p.geojson.hasItinerary THEN NullItinerary
                ELSE Some([k \in 1 .. Len(resolved) |-> resolved[k].leg]))

ResolvedLegs(it, coords, net) ==
    [k \in 1 .. Len(it) |-> ResolvedLeg(it, k, coords, net)]

\* map.drawRoute run
runDrawRoute(p, net) ==
    RouteResult(p, ResolvedLegs(Surfaced(p.geojson.itinerary, p.meta),
                                p.geojson.coordinates, net))

\* if (p) return { lat: p.lat, lon: p.lon, zoom }; ... return raw
FocusPrepared(a, p) ==
    [threw |-> p.status = "fail",
     lat |-> IF p.status = "hit" THEN p.lat ELSE a.lat,
     lon |-> IF p.status = "hit" THEN p.lon ELSE a.lon]

\* FocusInput.safeParse, then run
FocusResult(p) ==
    IF p.threw \/ p.lat = NoCoord \/ p.lon = NoCoord THEN ToolThrew
    ELSE ToolOk(<<[type |-> "focus", replace |-> FALSE, markers |-> <<>>,
                   lat |-> p.lat, lon |-> p.lon]>>, NullItinerary)

\* map.focus: coerceAsync, FocusInput, run (zoom is within 1..20 here)
runFocus(a, net) ==
    FocusResult(FocusPrepared(a, IF a.location # Absent
                                 THEN geocodeOnline(a.location, net) ELSE NoPoint))

\* the markers of the places that were found, keyed toLat/toLon
LocationMarkers(names, pts) ==
    [threw |-> \E k \in 1 .. Len(pts) : pts[k].status = "fail",
     markers |->
        SelectSeq([k \in 1 .. Len(pts) |->
                      [lat |-> NoCoord, lon |-> NoCoord,
                       toLat |-> pts[k].lat, toLon |-> pts[k].lon,
                       title |-> names[k], subtitle |-> NoSubtitle]],
                  LAMBDA m : m.toLat # NoCoord)]

\* map.addMarkers coerceAsync: a locations list becomes markers keyed
\* toLat/toLon; literal markers pass as they are
coerceAddMarkers(a, net) ==
    IF a.locations = Absent THEN [threw |-> FALSE, markers |-> a.markers]
    ELSE LocationMarkers(a.locations,
                         [k \in 1 .. Len(a.locations) |->
                             lookupTownCoords(a.locations[k], net)])

\* AddMarkersInput.safeParse(prepared).success
AddMarkersInput(p) ==
    \A k \in 1 .. Len(p.markers) :
        p.markers[k].lat # NoCoord /\ p.markers[k].lon # NoCoord

\* AddMarkersInput, unknown keys stripped, then run
MarkersResult(p) ==
    IF p.threw \/ ~AddMarkersInput(p) THEN ToolThrew
    ELSE ToolOk(<<[type |-> "drawMarkers", replace |-> FALSE,
                   markers |-> [k \in 1 .. Len(p.markers) |->
                                   [lat |-> p.markers[k].lat,
                                    lon |-> p.markers[k].lon,
                                    title |-> p.markers[k].title,
                                    subtitle |-> p.markers[k].subtitle]]]>>,
                NullItinerary)

\* map.addMarkers: coercion, validation, run
runAddMarkers(a, net) == MarkersResult(coerceAddMarkers(a, net))

\* DrawRouteInput.safeParse, then run
RouteValidated(prepared, net) ==
    IF prepared.threw \/ ~DrawRouteInput(prepared) THEN ToolThrew
    ELSE runDrawRoute(prepared, net)

\* the keys of toolRegistry
toolRegistry ==
    {"map.focus", "map.drawRoute", "map.addMarkers", "rag.search",
     "elevation.profile", "export.gpx", "places.search"}

\* mutant: run is handed whatever the coercion produced, unvalidated
runTool_Unvalidated(step, net) ==
    IF step.tool \notin toolRegistry THEN ToolThrew
    ELSE CASE step.tool = "map.focus" -> runFocus(step.args, net)
           [] step.tool = "map.drawRoute" ->
                 IF coerceDrawRoute(step.args, net).threw THEN ToolThrew
                 ELSE runDrawRoute(coerceDrawRoute(step.args, net), net)
           [] step.tool = "map.addMarkers" ->
                 IF coerceAddMarkers(step.args, net).threw THEN ToolThrew
                 ELSE ToolOk(<<[type |-> "drawMarkers", replace |-> FALSE,
                                markers |-> coerceAddMarkers(step.args, net).markers]>>,
                             NullItinerary)
           [] OTHER -> ToolOk(<<>>, NullItinerary)

\* runTool: lookup (unknown name throws), coerceAsync, input.safeParse, run
runTool(step, net) ==
    IF step.tool \notin toolRegistry THEN ToolThrew
    ELSE CASE step.tool = "map.focus" -> runFocus(step.args, net)
           [] step.tool = "map.drawRoute" ->
                 RouteValidated(coerceDrawRoute(step.args, net), net)
           [] step.tool = "map.addMarkers" -> runAddMarkers(step.args, net)
           [] OTHER -> IF step.args.valid THEN ToolOk(<<>>, NullItinerary)
                       ELSE ToolThrew

\* -------------------------- executePlan and step 4 on the real tools
\* The plans here carry the arguments the tools read.
Stage(from, to, km) == [from |-> from, to |-> to, distanceKm |-> km]
RouteArgs(start, end, stages, geojson) ==
    [start |-> start, end |-> end, stages |-> stages, geojson |-> geojson]
FocusArgs(location) == [location |-> location, lat |-> NoCoord, lon |-> NoCoord]
MarkerArgs(markers, locations) == [markers |-> markers, locations |-> locations]
Mk(lat, lon, title, day, km) ==
    [lat |-> lat, lon |-> lon, title |-> title, subtitle |-> [day |-> day, km |-> km]]

\* the arguments of the planner's documented example (planner.ts SYSTEM)
ExampleFocus == FocusArgs("Sarria")
ExampleRoute ==
    RouteArgs("Sarria", "Santiago",
              <<Stage("Sarria", "Portomarin", 222),
                Stage("Portomarin", "Palas de Rei", 248),
                Stage("Palas de Rei", "Melide", 152),
                Stage("Melide", "Arzua", 141),
                Stage("Arzua", "Santiago", 392)>>,
              NoGeojson)
ExampleMarkers ==
    MarkerArgs(<<Mk(4280750, -761530, "Portomarin", 1, 222),
                 Mk(4287410, -786870, "Palas de Rei", 2, 248),
                 Mk(4291420, -801290, "Melide", 3, 152),
                 Mk(4292900, -815850, "Arzua", 4, 141),
                 Mk(4288060, -854490, "Santiago", 5, 392)>>,
               Absent)

\* the calls a plan of this model is made of; args is any object, so a route
\* step may bring its own geojson, with legs under properties.itinerary
TripCalls ==
    {[tool |-> "map.focus", args |-> ExampleFocus],
     [tool |-> "map.focus", args |-> FocusArgs("Atlantis")],
     [tool |-> "map.drawRoute", args |-> ExampleRoute],
     [tool |-> "map.drawRoute",
      args |-> RouteArgs("Sarria", "Santiago de Compostela", <<>>, NoGeojson)],
     [tool |-> "map.drawRoute",
      args |-> RouteArgs("Sarria", "Santiago",
                         <<Stage("Sarria", Absent, NoKm), Stage(Absent, "Santiago", NoKm)>>,
                         NoGeojson)],
     [tool |-> "map.drawRoute",
      args |-> RouteArgs("Sarria", "Portomarin",
                         <<Stage("Sarria", "Portomarin", 222)>>, NoGeojson)],
     [tool |-> "map.drawRoute",
      args |-> RouteArgs(Absent, Absent,
                         <<Stage("Melide", "Arzua", 141), Stage("Arzua", "Atlantis", 100)>>,
                         [NoGeojson EXCEPT !.type = "Feature"])],
     [tool |-> "map.drawRoute",
      args |-> RouteArgs(Absent, Absent, <<>>,
                         [NoGeojson EXCEPT
                            !.type = "Feature",
                            !.itinerary = <<BareLeg(2, "Melide", "Arzua", NoKm)>>,
                            !.hasItinerary = TRUE])],
     [tool |-> "map.drawRoute",
      args |-> RouteArgs(Absent, Absent, <<>>,
                         [NoGeojson EXCEPT !.type = "Feature", !.hasItinerary = TRUE])],
     [tool |-> "map.addMarkers", args |-> ExampleMarkers],
     [tool |-> "map.addMarkers", args |-> MarkerArgs(<<>>, <<"Melide", "Arzua">>)],
     [tool |-> "rag.search", args |-> [valid |-> TRUE]]}

MaxTripSteps == 3

\* validated plans of 1..MaxTripSteps steps, none of them a pause step
TripPlans ==
    UNION {{[steps |-> [k \in 1 .. n |->
                          [id |-> StepIds[k], tool |-> cs[k].tool,
                           args |-> cs[k].args, pauseForUser |-> Absent]],
             budget |-> NoBudget] : cs \in [1 .. n -> TripCalls]} :
           n \in 1 .. MaxTripSteps}

\* the planner's documented example as a validated plan
ExamplePlan ==
    [steps |-> <<[id |-> "s1", tool |-> "map.focus", args |-> ExampleFocus,
                  pauseForUser |-> Absent],
                 [id |-> "s2", tool |-> "map.drawRoute", args |-> ExampleRoute,
                  pauseForUser |-> Absent],
                 [id |-> "s3", tool |-> "map.addMarkers", args |-> ExampleMarkers,
                  pauseForUser |-> Absent]>>,
     budget |-> NoBudget]

\* mutant: a later stage without `from` is not chained to the previous stage
extractLegsFromPlan_NoChain(p) ==
    LET routes == {k \in 1 .. Len(p.steps) : p.steps[k].tool = "map.drawRoute"}
        a == p.steps[CHOOSE r \in routes : \A m \in routes : r <= m].args
        n == Len(a.stages)
        rawTo(k) == IF a.stages[k].to # Absent THEN a.stages[k].to
                    ELSE IF k = n THEN a.end ELSE Absent
        rawFrom(k) == IF a.stages[k].from # Absent THEN a.stages[k].from
                      ELSE IF k = 1 THEN a.start ELSE Absent
    IN  IF routes = {} THEN NullItinerary
        ELSE IF n > 0
        THEN Some([k \in 1 .. n |->
                      BareLeg(k, OrElse(rawFrom(k), "Unknown"),
                              OrElse(rawTo(k), "Unknown"), NoKm)])
        ELSE IF a.start # Absent \/ a.end # Absent
        THEN Some(<<BareLeg(1, a.start, a.end, NoKm)>>)
        ELSE NullItinerary

\* extractItineraryFromPlan on these plans: the legs of the first
\* map.drawRoute step's stages (a missing from chained from the previous
\* stage's to), else one leg from start/end, else null; legs carry distanceKm,
\* not km, and no coordinates
extractLegsFromPlan(p) ==
    LET routes == {k \in 1 .. Len(p.steps) : p.steps[k].tool = "map.drawRoute"}
        a == p.steps[CHOOSE r \in routes : \A m \in routes : r <= m].args
        n == Len(a.stages)
        rawTo(k) == IF a.stages[k].to # Absent THEN a.stages[k].to
                    ELSE IF k = n THEN a.end ELSE Absent
        rawFrom(k) == IF a.stages[k].from # Absent THEN a.stages[k].from
                      ELSE IF k = 1 THEN a.start ELSE rawTo(k - 1)
    IN  IF routes = {} THEN NullItinerary
        ELSE IF n > 0
        THEN Some([k \in 1 .. n |->
                      BareLeg(k, OrElse(rawFrom(k), "Unknown"),
                              OrElse(rawTo(k), "Unknown"), NoKm)])
        ELSE IF a.start # Absent \/ a.end # Absent
        THEN Some(<<BareLeg(1, a.start, a.end, NoKm)>>)
        ELSE NullItinerary

TripIdle ==
    /\ plan = NoPlan /\ opts = NoOptions /\ epc = "idle" /\ i = 0 /\ attempt = 0
    /\ actions = <<>> /\ logs = <<>> /\ itinerary = NullItinerary /\ calls = <<>>
    /\ errorMsg = None
    /\ result = [actions |-> <<>>, nextIndex |-> -1, paused |-> FALSE,
                 logs |-> <<>>, itinerary |-> NullItinerary]

TripInit == TripIdle /\ NoCandidate /\ NoTraffic

\* POST with a built and validated plan: recordPlan, then executePlan up to
\* its first loop test
TripStart ==
    /\ rpc = "idle" /\ nreq = 0
    /\ \E p \in TripPlans :
        /\ plan' = p
        /\ validated' = Ok(p)
        /\ store' = recordPlan(store, FreshIds[1], p)
        /\ calls' = [k \in 1 .. Len(p.steps) |-> 0]
    /\ planId' = FreshIds[1]
    /\ nreq' = 1
    /\ rpc' = "executing"
    /\ opts' = RouteOptions(FALSE)
    /\ epc' = "loop"
    /\ i' = 0
    /\ attempt' = 0
    /\ actions' = <<Plain("clearRoute")>>
    /\ UNCHANGED <<logs, itinerary, errorMsg, result>>
    /\ UNCHANGED <<bout, req, response, nresp, genCalls, orphans>>
    /\ UNCHANGED pvars

\* mutant: a tool's itinerary is taken only while there is none yet
TripAttempt_FirstWriter ==
    /\ rpc = "executing" /\ epc = "loop"
    /\ i < stopAt(plan, opts)
    /\ attempt <= opts.maxRetries
    /\ \E net \in Nets :
        LET res == runTool(CurStep, net)
        IN  IF res.ok
            THEN /\ actions' = actions \o res.uiActions
                 /\ itinerary' = IF res.itinerary.isNull \/ ~itinerary.isNull
                                 THEN itinerary ELSE res.itinerary
                 /\ logs' = Append(logs, [idx |-> i, id |-> CurStep.id,
                                          tool |-> CurStep.tool,
                                          status |-> "ok", errorCode |-> None])
                 /\ i' = i + 1
                 /\ attempt' = 0
                 /\ errorMsg' = None
                 /\ UNCHANGED <<result, epc>>
            ELSE /\ errorMsg' = "throw"
                 /\ attempt' = attempt + 1
                 /\ IF attempt + 1 > opts.maxRetries
                    THEN /\ logs' = Append(logs, [idx |-> i, id |-> CurStep.id,
                                                  tool |-> CurStep.tool,
                                                  status |-> "error",
                                                  errorCode |-> "throw"])
                         /\ result' = [actions |-> actions, nextIndex |-> i,
                                       paused |-> FALSE, logs |-> logs',
                                       itinerary |-> itinerary]
                         /\ epc' = "done"
                    ELSE UNCHANGED <<logs, result, epc>>
                 /\ UNCHANGED <<i, actions, itinerary>>
    /\ calls' = [calls EXCEPT ![i + 1] = @ + 1]
    /\ UNCHANGED <<plan, opts>>
    /\ UNCHANGED <<pvars, rvars>>

\* one attempt of the current step: runTool returns, or throws
TripAttempt ==
    /\ rpc = "executing" /\ epc = "loop"
    /\ i < stopAt(plan, opts)
    /\ attempt <= opts.maxRetries
    /\ \E net \in Nets :
        LET res == runTool(CurStep, net)
        IN  IF res.ok
            THEN /\ actions' = actions \o res.uiActions
                 /\ itinerary' = IF res.itinerary.isNull THEN itinerary
                                 ELSE res.itinerary
                 /\ logs' = Append(logs, [idx |-> i, id |-> CurStep.id,
                                          tool |-> CurStep.tool,
                                          status |-> "ok", errorCode |-> None])
                 /\ i' = i + 1
                 /\ attempt' = 0
                 /\ errorMsg' = None
                 /\ UNCHANGED <<result, epc>>
            ELSE /\ errorMsg' = "throw"
                 /\ attempt' = attempt + 1
                 /\ IF attempt + 1 > opts.maxRetries
                    THEN /\ logs' = Append(logs, [idx |-> i, id |-> CurStep.id,
                                                  tool |-> CurStep.tool,
                                                  status |-> "error",
                                                  errorCode |-> "throw"])
                         /\ result' = [actions |-> actions, nextIndex |-> i,
                                       paused |-> FALSE, logs |-> logs',
                                       itinerary |-> itinerary]
                         /\ epc' = "done"
                    ELSE UNCHANGED <<logs, result, epc>>
                 /\ UNCHANGED <<i, actions, itinerary>>
    /\ calls' = [calls EXCEPT ![i + 1] = @ + 1]
    /\ UNCHANGED <<plan, opts>>
    /\ UNCHANGED <<pvars, rvars>>

\* the loop ends at its stop boundary: plan-derived itinerary, final return
TripExit ==
    /\ rpc = "executing" /\ epc = "loop"
    /\ i >= stopAt(plan, opts)
    /\ itinerary' = IF itinerary.isNull THEN extractLegsFromPlan(plan)
                    ELSE itinerary
    /\ result' = [actions |-> actions, nextIndex |-> i,
                  paused |-> opts.honorPause /\ pauseIdx(plan, opts) >= 0
                             /\ i = pauseIdx(plan, opts),
                  logs |-> logs, itinerary |-> itinerary']
    /\ epc' = "done"
    /\ UNCHANGED <<plan, opts, i, attempt, actions, logs, calls, errorMsg>>
    /\ UNCHANGED <<pvars, rvars>>

\* appendSteps, step 4 and the final return; the executor's state is kept
\* for comparison
TripRespond ==
    /\ rpc = "executing" /\ epc = "done"
    /\ store' = appendSteps(store, planId, result.logs)
    /\ response' = ExecutedBody(planId, reconcile(result.actions, result.itinerary))
    /\ rpc' = "idle"
    /\ nresp' = nresp + 1
    /\ UNCHANGED <<bout, req, planId, validated, nreq, genCalls, orphans>>
    /\ UNCHANGED <<evars, pvars>>

TripNext == TripStart \/ TripAttempt \/ TripExit \/ TripRespond

TripSpec == TripInit /\ [][TripNext]_vars

\* ------------------------------------- a route between two named places
\* A plan of one map.drawRoute step that names a start and an end and
\* nothing else: the coercion draws the line through townsBetween(start, end).
TownNames == {FRANCES_LAST100[k].name : k \in 1 .. Len(FRANCES_LAST100)}

\* every waypoint of the table, and a place that is not one
PlaceNames == TownNames \cup {"Atlantis"}

LinePlans ==
    {[steps |-> <<[id |-> "s1", tool |-> "map.drawRoute",
                   args |-> RouteArgs(a, b, <<>>, NoGeojson),
                   pauseForUser |-> Absent]>>,
      budget |-> NoBudget] : a \in PlaceNames, b \in PlaceNames}

\* POST with a built and validated plan: recordPlan, then executePlan up to
\* its first loop test
LineStart ==
    /\ rpc = "idle" /\ nreq = 0
    /\ \E p \in LinePlans :
        /\ plan' = p
        /\ validated' = Ok(p)
        /\ store' = recordPlan(store, FreshIds[1], p)
        /\ calls' = [k \in 1 .. Len(p.steps) |-> 0]
    /\ planId' = FreshIds[1]
    /\ nreq' = 1
    /\ rpc' = "executing"
    /\ opts' = RouteOptions(FALSE)
    /\ epc' = "loop"
    /\ i' = 0
    /\ attempt' = 0
    /\ actions' = <<Plain("clearRoute")>>
    /\ UNCHANGED <<logs, itinerary, errorMsg, result>>
    /\ UNCHANGED <<bout, req, response, nresp, genCalls, orphans>>
    /\ UNCHANGED pvars

LineNext == LineStart \/ TripAttempt \/ TripExit \/ TripRespond

LineSpec == TripInit /\ [][LineNext]_vars

\* ------------------------------- extractItineraryFromPlan on its own
\* executePlan called with hardMaxSteps 0: the loop body never runs and the
\* itinerary is the one derived from the plan.
MaxStages == 2

\* the names a stage, start or end may carry
StopNames == {Absent, "Sarria", "Santiago"}

StageLists ==
    UNION {[1 .. n -> {Stage(f, t, NoKm) : f \in StopNames, t \in StopNames}] :
           n \in 0 .. MaxStages}

\* plans of one map.drawRoute step, and one plan without such a step
DerivePlans ==
    {[steps |-> <<[id |-> "s1", tool |-> "map.drawRoute",
                   args |-> RouteArgs(s, e, st, NoGeojson),
                   pauseForUser |-> Absent]>>,
      budget |-> NoBudget] :
        s \in {Absent, "Sarria"}, e \in {Absent, "Santiago"}, st \in StageLists}
    \cup {[steps |-> <<[id |-> "s1", tool |-> "map.focus", args |-> ExampleFocus,
                        pauseForUser |-> Absent]>>,
           budget |-> NoBudget]}

\* executePlan({ plan, hardMaxSteps: 0 }) at its first loop test
DeriveInit ==
    /\ plan \in DerivePlans
    /\ opts = [NoOptions EXCEPT !.hardMaxSteps = 0, !.maxRetries = 1,
                                !.honorPause = TRUE, !.prependClear = TRUE]
    /\ epc = "loop" /\ i = 0 /\ attempt = 0
    /\ actions = <<Plain("clearRoute")>> /\ logs = <<>>
    /\ itinerary = NullItinerary /\ calls = <<0>> /\ errorMsg = None
    /\ result = [actions |-> <<>>, nextIndex |-> -1, paused |-> FALSE,
                 logs |-> <<>>, itinerary |-> NullItinerary]
    /\ NoCandidate /\ NoTraffic

\* the loop ends at once: plan-derived itinerary, final return
DeriveExit ==
    /\ rpc = "idle" /\ epc = "loop"
    /\ i >= stopAt(plan, opts)
    /\ itinerary' = IF itinerary.isNull THEN extractLegsFromPlan(plan)
                    ELSE itinerary
    /\ result' = [actions |-> actions, nextIndex |-> i,
                  paused |-> opts.honorPause /\ pauseIdx(plan, opts) >= 0
                             /\ i = pauseIdx(plan, opts),
                  logs |-> logs, itinerary |-> itinerary']
    /\ epc' = "done"
    /\ UNCHANGED <<plan, opts, i, attempt, actions, logs, calls, errorMsg>>
    /\ UNCHANGED <<pvars, rvars>>

DeriveSpec == DeriveInit /\ [][DeriveExit]_vars

\* ------------------------------------------------- overlapping requests
\* Several POST handlers in flight at once. A handler runs without
\* interruption between two awaits, so each action below is one such stretch;
\* recordPlan and appendSteps are synchronous. In this specification rpc, req,
\* planId and result hold one value per handler.
MaxHandlers == 2
Handlers == 1 .. MaxHandlers

\* the plan handler h builds, and the logs of its executePlan pass over a
\* plan p (by: ghost, the handler whose pass it was)
ConcPlan(h) ==
    [steps |-> <<[id |-> StepIds[h], tool |-> "map.focus", args |-> "empty",
                  pauseForUser |-> Absent]>>,
     budget |-> NoBudget]
ConcLogs(h, p) ==
    {<<[idx |-> 0, id |-> p.steps[1].id, tool |-> p.steps[1].tool,
        status |-> s, errorCode |-> IF s = "ok" THEN None ELSE "throw",
        by |-> h]>> : s \in {"ok", "error"}}

\* request bodies: approve or not, with the first issued id, a made-up id, or
\* no id
ConcRequests ==
    {[NoRequest EXCEPT !.body = "ok", !.approve = a, !.planId = id] :
        a \in BOOLEAN, id \in {Absent, FreshIds[1], ForgedId}}

ConcInit ==
    /\ Idle /\ NoCandidate
    /\ bout = NoOutcome /\ validated = NoOutcome
    /\ store = [id \in PlanIds |-> NoRecord]
    /\ rpc = [h \in Handlers |-> "idle"]
    /\ req = [h \in Handlers |-> NoRequest]
    /\ planId = [h \in Handlers |-> Absent]
    /\ response = NoResponse /\ nreq = 0 /\ nresp = 0
    /\ genCalls = 0 /\ orphans = 0

\* route.ts 112-153: the request is read; the resume path validates the
\* stored plan and starts executePlan, the build path awaits buildPlan
ConcReceive(h) ==
    /\ rpc[h] = "idle"
    /\ \E r \in ConcRequests :
        /\ req' = [req EXCEPT ![h] = r]
        /\ planId' = [planId EXCEPT ![h] = OrElse(r.planId, FreshIds[h])]
        /\ rpc' = [rpc EXCEPT ![h] =
                    IF Resumes(r)
                    THEN IF getPlan(store, r.planId).present
                         THEN "executing" ELSE "invalidOrExpired"
                    ELSE "planning"]
    /\ nreq' = nreq + 1
    /\ UNCHANGED <<bout, store, validated, response, nresp, genCalls, orphans>>
    /\ UNCHANGED <<evars, pvars>>

\* route.ts 154-192: buildPlan has settled; on success validatePlan,
\* recordPlan, then executePlan up to its first await
ConcBuilt(h) ==
    /\ rpc[h] = "planning"
    /\ \E built \in BOOLEAN :
        /\ store' = IF built THEN recordPlan(store, planId[h], ConcPlan(h))
                    ELSE store
        /\ rpc' = [rpc EXCEPT ![h] = IF built THEN "executing" ELSE "fallback"]
    /\ UNCHANGED <<bout, req, planId, validated, response, nreq, nresp,
                   genCalls, orphans>>
    /\ UNCHANGED <<evars, pvars>>

\* route.ts 193-196: executePlan has returned; appendSteps(planId, logs).
\* result[h] keeps what was passed, and whether the id had a record then.
ConcExecuted(h) ==
    /\ rpc[h] = "executing"
    /\ \E ls \in ConcLogs(h, IF getPlan(store, planId[h]).present
                             THEN getPlan(store, planId[h]).plan
                             ELSE ConcPlan(h)) :
        /\ store' = appendSteps(store, planId[h], ls)
        /\ result' = [result EXCEPT !.logs = @ \o
                        <<[by |-> h, id |-> planId[h], entries |-> ls,
                           recorded |-> getPlan(store, planId[h]).present]>>]
    /\ rpc' = [rpc EXCEPT ![h] = "answered"]
    /\ nresp' = nresp + 1
    /\ UNCHANGED <<bout, req, planId, validated, response, nreq, genCalls,
                   orphans>>
    /\ UNCHANGED <<plan, opts, epc, i, attempt, actions, logs, itinerary,
                   calls, errorMsg>>
    /\ UNCHANGED pvars

ConcNext ==
    \E h \in Handlers : ConcReceive(h) \/ ConcBuilt(h) \/ ConcExecuted(h)

ConcSpec == ConcInit /\ [][ConcNext]_vars

\* ------------------------- executePlan from any start index, then step 4
\* executePlan called directly on the real tools, with the options of the
\* route except that startIndex and prependClear take every value; the plan
\* is taken as given (executePlan itself validates nothing), so a step may
\* name a tool the registry does not have. Step 4 of POST is then applied to
\* what executePlan returned.
OrderCalls ==
    {[tool |-> "map.focus", args |-> ExampleFocus],
     [tool |-> "map.focus", args |-> FocusArgs("Atlantis")],
     [tool |-> "map.drawRoute",
      args |-> RouteArgs("Sarria", "Santiago de Compostela", <<>>, NoGeojson)],
     [tool |-> "map.addMarkers", args |-> ExampleMarkers],
     [tool |-> "map.addMarkers", args |-> MarkerArgs(<<>>, <<"Melide", "Arzua">>)],
     [tool |-> "rag.search", args |-> [valid |-> TRUE]],
     [tool |-> "map.teleport", args |-> [valid |-> TRUE]]}

\* plans of 1..MaxTripSteps steps, none of them a pause step
OrderPlans ==
    UNION {{[steps |-> [k \in 1 .. n |->
                          [id |-> StepIds[k], tool |-> cs[k].tool,
                           args |-> cs[k].args, pauseForUser |-> Absent]],
             budget |-> NoBudget] : cs \in [1 .. n -> OrderCalls]} :
           n \in 1 .. MaxTripSteps}

OrderOptions(p) ==
    {[RouteOptions(TRUE) EXCEPT !.startIndex = s, !.prependClear = c] :
        s \in 0 .. Len(p.steps), c \in BOOLEAN}

\* mutant: the clear action is emitted whenever prependClear is set
OrderStart_AlwaysClear ==
    /\ rpc = "idle" /\ nreq = 0
    /\ \E p \in OrderPlans : \E o \in OrderOptions(p) :
        /\ plan' = p
        /\ opts' = o
        /\ calls' = [k \in 1 .. Len(p.steps) |-> 0]
        /\ i' = o.startIndex
        /\ actions' = IF o.prependClear THEN <<Plain("clearRoute")>> ELSE <<>>
    /\ planId' = FreshIds[1]
    /\ nreq' = 1
    /\ rpc' = "executing"
    /\ epc' = "loop"
    /\ attempt' = 0
    /\ UNCHANGED <<logs, itinerary, errorMsg, result>>
    /\ UNCHANGED <<bout, store, req, validated, response, nresp, genCalls, orphans>>
    /\ UNCHANGED pvars

\* executePlan up to its first loop test:
\* if (prependClear && startIndex === 0) actions.push({ type: "clearRoute" })
OrderStart ==
    /\ rpc = "idle" /\ nreq = 0
    /\ \E p \in OrderPlans : \E o \in OrderOptions(p) :
        /\ plan' = p
        /\ opts' = o
        /\ calls' = [k \in 1 .. Len(p.steps) |-> 0]
        /\ i' = o.startIndex
        /\ actions' = IF o.prependClear /\ o.startIndex = 0
                      THEN <<Plain("clearRoute")>> ELSE <<>>
    /\ planId' = FreshIds[1]
    /\ nreq' = 1
    /\ rpc' = "executing"
    /\ epc' = "loop"
    /\ attempt' = 0
    /\ UNCHANGED <<logs, itinerary, errorMsg, result>>
    /\ UNCHANGED <<bout, store, req, validated, response, nresp, genCalls, orphans>>
    /\ UNCHANGED pvars

OrderNext == OrderStart \/ TripAttempt \/ TripExit \/ TripRespond

OrderSpec == TripInit /\ [][OrderNext]_vars

\* --------------------------- attempts raced against the per-attempt timer
\* withTimeout races runTool(...) against a timer and awaits the winner:
\* when the timer wins, the invocation is left running. Here orphans holds
\* the tool invocations left running, each named by its step index and the
\* number of the attempt that dispatched it.
MaxRaceSteps == 2

\* valid plans of 1..MaxRaceSteps steps, tools by position as in ExecPlans
RacePlans ==
    UNION {
        {[steps |-> [k \in 1 .. n |->
                        [id |-> StepIds[k], tool |-> tl[k], args |-> ArgsAt(tl, k),
                         pauseForUser |-> pf[k]]],
          budget |-> NoBudget] :
            tl \in ToolSeqs,
            pf \in [1 .. n -> {"absent", "true"}]} :
        n \in 1 .. MaxRaceSteps}

\* the options of the route, for every retry allowance
RaceOptions ==
    {[RouteOptions(approve) EXCEPT !.maxRetries = r] :
        approve \in BOOLEAN, r \in 0 .. MaxRetries}

RaceInit ==
    /\ Idle /\ NoCandidate
    /\ bout = NoOutcome /\ validated = NoOutcome
    /\ store = [id \in PlanIds |-> NoRecord]
    /\ rpc = "idle" /\ req = NoRequest /\ planId = Absent
    /\ response = NoResponse /\ nreq = 0 /\ nresp = 0 /\ genCalls = 0
    /\ orphans = {}

RaceStart ==
    /\ epc = "idle"
    /\ \E p \in RacePlans : \E o \in RaceOptions : StartExecute(p, o)
    /\ UNCHANGED <<pvars, rvars>>

\* one attempt: the race rejects, because runTool threw or because the timer
\* fired first; in the second case the invocation goes on running
RaceFail ==
    /\ epc = "loop"
    /\ i < stopAt(plan, opts)
    /\ CurStep.id \notin opts.alreadyExecuted
    /\ attempt <= opts.maxRetries
    /\ \E kind \in {"timeout", "throw"} :
        /\ calls' = [calls EXCEPT ![i + 1] = @ + 1]
        /\ errorMsg' = kind
        /\ orphans' = IF kind = "timeout"
                      THEN orphans \cup {[idx |-> i, attempt |-> attempt]}
                      ELSE orphans
    /\ attempt' = attempt + 1
    /\ IF attempt + 1 > opts.maxRetries
       THEN /\ logs' = Append(logs, [idx |-> i, id |-> CurStep.id,
                                     tool |-> CurStep.tool,
                                     status |-> "error", errorCode |-> errorMsg'])
            /\ result' = [actions |-> actions, nextIndex |-> i,
                          paused |-> FALSE, logs |-> logs',
                          itinerary |-> itinerary]
            /\ epc' = "done"
       ELSE UNCHANGED <<logs, result, epc>>
    /\ UNCHANGED <<plan, opts, i, actions, itinerary>>
    /\ UNCHANGED <<bout, store, rpc, req, planId, validated, response, nreq,
                   nresp, genCalls>>
    /\ UNCHANGED pvars

\* mutant: what an invocation returns after its timer fired is still taken
LateSettle_Delivered ==
    /\ \E o \in orphans :
        /\ orphans' = orphans \ {o}
        /\ \E res \in ToolResults(plan.steps[o.idx + 1].tool) :
            /\ actions' = actions \o Tagged(res.uiActions, o.idx)
            /\ itinerary' = IF res.itinerary THEN [src |-> "tool", step |-> o.idx]
                            ELSE itinerary
    /\ UNCHANGED <<plan, opts, epc, i, attempt, logs, calls, errorMsg, result>>
    /\ UNCHANGED <<bout, store, rpc, req, planId, validated, response, nreq,
                   nresp, genCalls>>
    /\ UNCHANGED pvars

\* an invocation left running settles, with a result or with an error: the
\* race it belonged to was decided by the timer, nothing awaits it any more
LateSettle ==
    /\ \E o \in orphans : orphans' = orphans \ {o}
    /\ UNCHANGED evars
    /\ UNCHANGED <<bout, store, rpc, req, planId, validated, response, nreq,
                   nresp, genCalls>>
    /\ UNCHANGED pvars

RaceNext == RaceStart \/ AttemptOk \/ RaceFail \/ LoopExit \/ LateSettle

RaceSpec == RaceInit /\ [][RaceNext]_vars

\* ----------------------------------------------------------------------
\* Properties of one executePlan pass (checked under ExecSpec)
\* ----------------------------------------------------------------------
Done == epc = "done"

\* the pause steps of a plan, as 0-based indexes
PauseSteps(p) ==
    {k \in 0 .. Len(p.steps) - 1 : p.steps[k + 1].pauseForUser = "true"}

\* the first pause step at or after index s, or -1: stated on its own, not
\* through findPauseIndex
FirstPauseFrom(p, s) ==
    IF \E k \in PauseSteps(p) : k >= s
    THEN CHOOSE k \in PauseSteps(p) :
            k >= s /\ \A m \in PauseSteps(p) : m >= s => k <= m
    ELSE -1

\* the steps the caller lets one pass process: hardMaxSteps when given,
\* never more than the plan has
CallerBudget ==
    IF opts.hardMaxSteps = NoLimit \/ opts.hardMaxSteps > Len(plan.steps)
    THEN Len(plan.steps)
    ELSE opts.hardMaxSteps

LastLog(ls) == ls[Len(ls)]

\* the pass returned from the catch block: a step failed on every attempt
HaltedOnError ==
    Done /\ result.logs # <<>> /\ LastLog(result.logs).status = "error"

LogsOf(ls, k) == {n \in 1 .. Len(ls) : ls[n].idx = k}

\* the UI actions a tool's run emits, by tool (what ToolResults fixes)
EmittedBy(tool) ==
    IF tool = "map.focus" THEN <<"focus">>
    ELSE IF tool = "map.drawRoute" THEN <<"drawRoute", "drawMarkers">>
    ELSE IF tool = "map.addMarkers" THEN <<"drawMarkers">>
    ELSE <<>>

\* the actions of the steps logged ok, in log order
RECURSIVE ActionsOfOk(_)
ActionsOfOk(ls) ==
    IF ls = <<>> THEN <<>>
    ELSE (IF Head(ls).status = "ok"
          THEN [n \in 1 .. Len(EmittedBy(Head(ls).tool)) |->
                    [type |-> EmittedBy(Head(ls).tool)[n], src |-> Head(ls).idx]]
          ELSE <<>>) \o ActionsOfOk(Tail(ls))

ClearPrefix ==
    IF opts.prependClear /\ opts.startIndex = 0
    THEN <<[type |-> "clearRoute", src |-> -1]>>
    ELSE <<>>

NothingFrom(acts, k) == \A n \in 1 .. Len(acts) : acts[n].src < k

C2_PauseStepNotInvoked ==
    (epc # "idle" /\ opts.honorPause) =>
        LET k == FirstPauseFrom(plan, opts.startIndex)
        IN  k >= 0 => \A m \in k .. Len(plan.steps) - 1 : calls[m + 1] = 0

C2_Witness ==
    /\ Done /\ opts.honorPause /\ opts.startIndex = 1
    /\ PauseSteps(plan) = {0, 2}
    /\ calls[2] > 0 /\ calls[3] = 0

\* C3: when every attempt of a step fails, the pass stops at once: the error
\* entry is the last log entry and names that step, paused is false,
\* nextIndex is the failed step, no later step is invoked, and the actions
\* are the clear action (if emitted) followed by exactly the actions of the
\* steps that succeeded before it.
C3_FailureHalts ==
    \A n \in 1 .. Len(logs) :
        logs[n].status = "error" =>
            /\ n = Len(logs)
            /\ Done
            /\ result.logs = logs
            /\ logs[n].idx = i /\ logs[n].id = plan.steps[i + 1].id
            /\ ~result.paused
            /\ result.nextIndex = logs[n].idx
            /\ \A m \in i + 1 .. Len(plan.steps) - 1 : calls[m + 1] = 0
            /\ result.actions = ClearPrefix \o ActionsOfOk(SubSeq(logs, 1, n - 1))
            /\ NothingFrom(result.actions, i)

C3_Witness ==
    /\ HaltedOnError
    /\ LastLog(result.logs).errorCode = "timeout"
    /\ result.nextIndex = 1 /\ Len(plan.steps) = 3
    /\ calls[2] = opts.maxRetries + 1 /\ opts.maxRetries = 1
    /\ Len(result.actions) >= 2

\* C4: a step's tool is invoked at most maxRetries + 1 times: exactly
\* maxRetries + 1 times when every attempt fails, whether by timeout or by a
\* throw, and never again once an attempt has succeeded.
C4_RetryBudget ==
    /\ [](\A k \in 1 .. Len(calls) : calls[k] <= opts.maxRetries + 1)
    /\ [](\A n \in 1 .. Len(logs) :
            /\ logs[n].status = "error" =>
                    /\ logs[n].errorCode \in {"timeout", "throw"}
                    /\ calls[logs[n].idx + 1] = opts.maxRetries + 1
            /\ logs[n].status = "ok" => calls[logs[n].idx + 1] >= 1
            /\ logs[n].status = "skipped" => calls[logs[n].idx + 1] = 0)
    /\ [][\A n \in 1 .. Len(logs) :
            logs[n].status = "ok" =>
                calls'[logs[n].idx + 1] = calls[logs[n].idx + 1]]_vars

C4_Witness ==
    /\ Done /\ opts.maxRetries = 1 /\ Len(logs) = 2
    /\ logs[1].status = "ok" /\ calls[logs[1].idx + 1] = 2
    /\ logs[2].status = "error" /\ logs[2].errorCode = "throw"
    /\ calls[logs[2].idx + 1] = 2

\* the steps a pass processed: executed or skipped
Processed(ls) == Cardinality({n \in 1 .. Len(ls) : ls[n].status # "error"})

\* C5 as stated: the steps processed in one pass never exceed the hard step
\* budget, the smaller of the plan's budget.maxSteps and the caller's
\* hardMaxSteps, whichever are given.
C5_AsStated ==
    Done =>
        /\ plan.budget # NoBudget => Processed(result.logs) <= plan.budget
        /\ opts.hardMaxSteps # NoLimit => Processed(result.logs) <= opts.hardMaxSteps

C7_PausedOnlyAtPause ==
    Done =>
        LET k == FirstPauseFrom(plan, opts.startIndex)
        IN  /\ result.paused =>
                /\ opts.honorPause
                /\ k >= 0
                /\ result.nextIndex = k
                /\ ~HaltedOnError
                /\ \A n \in 1 .. Len(result.logs) : result.logs[n].idx < k
            /\ HaltedOnError => ~result.paused
            /\ (k >= 0 /\ result.nextIndex < k) => ~result.paused

C7_Witness ==
    /\ Done /\ opts.honorPause /\ ~HaltedOnError
    /\ PauseSteps(plan) = {2} /\ opts.startIndex = 0 /\ opts.hardMaxSteps = 1
    /\ result.nextIndex = 1 /\ ~result.paused
    /\ Len(result.logs) = 1

\* ----------------------------------------------------------------------
\* Properties of validatePlan (checked under PlanSpec)

\* the candidates the sentence on validatePlan names: an object whose steps
\* array has 1 to 50 entries, each with a non-empty id, a tool of the enum and
\* object args
ClaimedValid(c) ==
    /\ c.kind = "object"
    /\ Len(c.steps) \in 1 .. MaxPlanSteps
    /\ \A k \in 1 .. Len(c.steps) :
        /\ c.steps[k].id \notin {"", Absent}
        /\ c.steps[k].tool \in ToolName
        /\ c.steps[k].args \in {"empty", "route"}

\* the same, with every optional field absent or of its declared type
WellFormed(c) ==
    /\ ClaimedValid(c)
    /\ \A k \in 1 .. Len(c.steps) :
        /\ c.steps[k].why # BadType
        /\ c.steps[k].pauseForUser # BadType
    /\ c.specialist \in {Absent, "navigator", "concierge", "safety", "logistics"}
    /\ c.budget \in {NoBudget} \cup (1 .. MaxPlanSteps)

\* a candidate without the keys the schema does not name
WithoutUnknownKeys(c) ==
    [kind |-> c.kind,
     steps |-> [k \in 1 .. Len(c.steps) |->
                    [id |-> c.steps[k].id, tool |-> c.steps[k].tool,
                     args |-> c.steps[k].args, why |-> c.steps[k].why,
                     pauseForUser |-> c.steps[k].pauseForUser, extra |-> FALSE]],
     specialist |-> c.specialist, budget |-> c.budget, extra |-> FALSE]

\* C8 as stated: validatePlan accepts exactly the candidates with 1 to 50 steps
\* of non-empty id, enum tool and object args, returns such a candidate
\* unchanged, and validating its result returns it again.
C8_AsStated ==
    vpc \in {"validated", "revalidated"} =>
        /\ vout.ok <=> ClaimedValid(cand)
        /\ vout.ok => vout.data = cand
        /\ vpc = "revalidated" => vout2 = vout

\* C8 (amended): validatePlan accepts exactly the candidates that, besides
\* having 1 to 50 steps of non-empty id, enum tool and object args, have every
\* optional field (why, pauseForUser, specialist, budget) absent or well
\* typed; it returns the candidate without its unknown keys, so unchanged when
\* it has none; validating the result returns the same result; any other
\* candidate fails with an error; and validation changes nothing else.
C8_Validate ==
    /\ [](vpc \in {"validated", "revalidated"} =>
            /\ vout.ok <=> WellFormed(cand)
            /\ vout.ok => vout.data = WithoutUnknownKeys(cand)
            /\ (vout.ok /\ ~cand.extra
                    /\ \A k \in 1 .. Len(cand.steps) : ~cand.steps[k].extra)
                  => vout.data = cand
            /\ ~vout.ok => vout = Failed("invalid")
            /\ vpc = "revalidated" => vout2 = vout)
    /\ [][(vpc = "submitted" \/ vpc = "validated") =>
            cand' = cand /\ evars' = evars /\ rvars' = rvars]_vars

\* a 50-step candidate with an unknown key is accepted, comes back without
\* the key, and validates to the same result again
C8_Witness ==
    /\ vpc = "revalidated"
    /\ Len(cand.steps) = MaxPlanSteps
    /\ cand.extra
    /\ vout.ok /\ vout.data # cand /\ vout2 = vout

\* ----------------------------------------------------------------------
\* Properties of the request handler (checked under Spec)

\* the plan a resume request names: the stored one when there is one, else
\* the inline one
NamedPlan ==
    IF req.planId # Absent /\ store[req.planId].present
    THEN store[req.planId].plan
    ELSE req.plan

\* C9: whenever the executor runs in a request, the plan it runs is the one
\* validatePlan returned in that request: the built plan on the build path,
\* the stored plan or else the inline plan on the approve path; no
\* ill-formed plan reaches tool execution.
C9_ExecutesOnlyValidated ==
    epc # "idle" =>
        /\ rpc = "executing"
        /\ validated.ok
        /\ plan = validated.data
        /\ WellFormed(plan)
        /\ IF req.approve /\ (req.planId # Absent \/ req.hasPlan)
           THEN WellFormed(NamedPlan) /\ plan = WithoutUnknownKeys(NamedPlan)
           ELSE bout.ok /\ plan = bout.data

\* an approval naming a stored draft is executing that plan
C9_Witness ==
    /\ rpc = "executing" /\ epc = "loop"
    /\ req.approve /\ ~req.hasPlan
    /\ req.planId # Absent /\ store[req.planId].present
    /\ plan = store[req.planId].plan
    /\ PauseSteps(plan) # {}
    /\ Len(logs) > 0

\* a step with its pause flag left out of the comparison
SansPause(s) == [s EXCEPT !.pauseForUser = Absent]

\* C10: the plan buildPlan returns has at most one pause step, at the index
\* of the input's first pause step; length, order, every other field of every
\* step and the plan's own fields are the input's; normalising it again
\* changes nothing; and every plan in the store has at most one pause step.
C10_FirstPauseOnly ==
    /\ bout.ok =>
        LET in == WithoutUnknownKeys(cand)
            out == bout.data
        IN  /\ Len(out.steps) = Len(in.steps)
            /\ PauseSteps(out) =
                 IF PauseSteps(in) = {} THEN {} ELSE {FirstPauseFrom(in, 0)}
            /\ \A k \in 1 .. Len(in.steps) :
                    SansPause(out.steps[k]) = SansPause(in.steps[k])
            /\ [out EXCEPT !.steps = <<>>] = [in EXCEPT !.steps = <<>>]
            /\ normalizePauses(out) = out
    /\ \A id \in PlanIds :
        store[id].present => Cardinality(PauseSteps(store[id].plan)) <= 1

\* the model flagged the second and the third step; the plan built and
\* stored pauses at the second only
C10_Witness ==
    /\ bout.ok
    /\ PauseSteps(cand) = {1, 2}
    /\ PauseSteps(bout.data) = {1}
    /\ planId # Absent /\ store[planId].present
    /\ store[planId].plan = bout.data

\* C11 as stated: a build whose first output fails JSON parsing or plan
\* validation has issued exactly one follow-up generative request by the time
\* it fails, and no build issues more than two.
C11_AsStated ==
    /\ genCalls <= 2
    /\ (rpc = "fallback" /\ bout.why \in {"invalid", "nonJson"}) => genCalls = 2

\* C12 as stated: when the planner timeout fires and the handler aborts, the
\* generative request does not go on running; none is ever left behind.
C12_AsStated == orphans = 0

\* a build that failed: no plan came back from buildPlan, or validatePlan
\* rejected what came back
BuildFailed == genCalls > 0 /\ rpc \notin {"idle", "planning"} /\ ~validated.ok

\* C13: when plan building fails (the generative call throws or gives no
\* JSON plan, the planner timeout elapses, or the built plan fails
\* validation), the handler goes to its fallback return without starting
\* the executor and without touching the store; the response is a 200 whose
\* plan is the canned itinerary and whose actions are one drawMarkers action
\* with replace:true and one marker per canned leg, at that leg's destination.
C13_FallbackOnBuildFailure ==
    /\ [](BuildFailed => rpc = "fallback" /\ epc = "idle" /\ calls = <<>>)
    /\ [][(rpc = "planning" /\ rpc' # "planning" /\ ~validated'.ok) =>
            (rpc' = "fallback" /\ store' = store)]_vars
    /\ [][(rpc = "fallback" /\ rpc' # "fallback") =>
            /\ store' = store /\ epc' = "idle"
            /\ response'.status = 200
            /\ response'.keys = {"planId", "reply", "plan", "actions"}
            /\ response'.plan = DEMO_ITINERARY
            /\ Len(response'.actions) = 1
            /\ response'.actions[1].type = "drawMarkers"
            /\ response'.actions[1].replace
            /\ Len(response'.actions[1].markers) = Len(DEMO_ITINERARY)
            /\ \A k \in 1 .. Len(DEMO_ITINERARY) :
                /\ response'.actions[1].markers[k].lat = DEMO_ITINERARY[k].toLat
                /\ response'.actions[1].markers[k].lon = DEMO_ITINERARY[k].toLon
                /\ response'.actions[1].markers[k].title = DEMO_ITINERARY[k].to]_vars

\* the fallback has been sent after a planner timeout, and the store is empty
C13_Witness ==
    /\ rpc = "idle" /\ response.kind = "fallback" /\ orphans = 1
    /\ response.plan = DEMO_ITINERARY
    /\ \A id \in PlanIds : ~store[id].present

\* C14: every request gets exactly one response, and gets it eventually,
\* whatever failed; every response is a 200 with a reply and no raw error;
\* executePlan, once started, returns, having made at most maxRetries + 1
\* attempts at each of the plan's steps.
C14_AlwaysAnswers ==
    /\ [](nresp = IF rpc = "idle" THEN nreq ELSE nreq - 1)
    /\ [](response.kind # "none" =>
            /\ response.status = 200
            /\ "reply" \in response.keys
            /\ response.keys \subseteq
                    {"reply", "planId", "draftPlan", "plan", "actions"})
    /\ [](/\ Len(calls) = Len(plan.steps)
          /\ \A k \in 1 .. Len(calls) : calls[k] <= RouteMaxRetries + 1)
    /\ \A n \in 1 .. MaxRequests : (nreq = n) ~> (nresp = n)
    /\ (epc = "loop") ~> (epc = "done")

\* a request whose plan failed for good at a step has been answered
C14_Witness ==
    /\ rpc = "idle" /\ nresp = nreq
    /\ response.kind = "executed" /\ response.status = 200
    /\ response.planId # Absent
    /\ store[response.planId].present
    /\ Len(store[response.planId].steps) > 0
    /\ LastLog(store[response.planId].steps).status = "error"

\* the request being served is an approval naming a plan id or carrying a plan
Resuming == rpc # "idle" /\ req.approve /\ (req.planId # Absent \/ req.hasPlan)

\* the store has a plan under the id the request names
StoredForRequest == req.planId # Absent /\ store[req.planId].present

\* C15: an approval with a plan id or an inline plan issues no generative
\* request; what it executes is the stored plan when the store has one under
\* the id, else the inline plan; with no stored plan and no valid inline plan
\* it goes to the ask-again reply, a 200, and starts no tool.
C15_ResumeSkipsBuild ==
    /\ Resuming => genCalls = 0 /\ bout = NoOutcome /\ rpc # "planning"
    /\ (Resuming /\ StoredForRequest) =>
            rpc = "executing" /\ plan = store[req.planId].plan
    /\ (Resuming /\ ~StoredForRequest /\ req.hasPlan /\ WellFormed(req.plan)) =>
            rpc = "executing" /\ plan = WithoutUnknownKeys(req.plan)
    /\ (Resuming /\ ~StoredForRequest
            /\ ~(req.hasPlan /\ WellFormed(req.plan))) =>
            rpc = "invalidOrExpired" /\ epc = "idle" /\ calls = <<>>
    /\ response.kind = "invalidOrExpired" =>
            response.status = 200 /\ "reply" \in response.keys

\* an approval names a stored draft and carries another plan as well: the
\* stored one is running
C15_Witness ==
    /\ Resuming /\ StoredForRequest /\ req.hasPlan
    /\ WellFormed(req.plan)
    /\ plan # WithoutUnknownKeys(req.plan)
    /\ epc = "loop" /\ Len(logs) > 0

Reconciled == rpc = "idle" /\ response.kind = "executed"

\* an itinerary with legs, a numeric toLat and toLon on each
CoordComplete(legs) ==
    /\ Len(legs) > 0
    /\ \A k \in 1 .. Len(legs) : legs[k].toLat # NoCoord /\ legs[k].toLon # NoCoord

MarkerActions(acts) == {n \in 1 .. Len(acts) : acts[n].type = "drawMarkers"}

\* C17: when the itinerary of the response has legs and numeric toLat/toLon
\* on each, the response actions are the executor's non-marker actions in
\* their order followed by one drawMarkers action with replace:true, the only
\* drawMarkers action of the list; otherwise (a leg without coordinates, or no
\* leg at all) the response actions are the executor's actions as they were,
\* none of them with replace:true.
C17_SingleAuthoritativeMarkers ==
    Reconciled =>
        LET out == response.actions
            in == result.actions
        IN  IF CoordComplete(response.plan)
            THEN /\ Len(out) > 0
                 /\ MarkerActions(out) = {Len(out)}
                 /\ out[Len(out)].replace = TRUE
                 /\ SubSeq(out, 1, Len(out) - 1) = SelectSeq(in, LAMBDA a : a.type # "drawMarkers")
            ELSE /\ out = in
                 /\ \A n \in 1 .. Len(out) : out[n].replace = FALSE

\* tools emitted marker actions between other actions and the itinerary has
\* coordinates throughout: they were dropped, one replace:true action ends
\* the list
C17_Witness ==
    /\ Reconciled
    /\ CoordComplete(response.plan)
    /\ Cardinality(MarkerActions(result.actions)) >= 2
    /\ \E n \in 1 .. Len(result.actions) : result.actions[n].type # "drawMarkers"
    /\ Len(response.actions) < Len(result.actions)

\* the first leg has fromLat and fromLon
HasStart(legs) == legs[1].fromLat # NoCoord /\ legs[1].fromLon # NoCoord

\* C18: the synthesized drawMarkers{replace:true} action has one marker per
\* leg, in leg order, at the leg's toLat/toLon, after one day-0 marker at the
\* first leg's fromLat/fromLon exactly when the first leg has both; so it has
\* as many markers as there are legs, or one more.
C18_OneMarkerPerLeg ==
    (Reconciled /\ CoordComplete(response.plan)) =>
        LET legs == response.plan
            ms == response.actions[Len(response.actions)].markers
            d == IF HasStart(legs) THEN 1 ELSE 0
        IN  /\ Len(ms) = Len(legs) + d
            /\ \A k \in 1 .. Len(legs) :
                /\ ms[k + d].lat = legs[k].toLat
                /\ ms[k + d].lon = legs[k].toLon
                /\ ms[k + d].title = legs[k].to
            /\ d = 1 => /\ ms[1].lat = legs[1].fromLat
                        /\ ms[1].lon = legs[1].fromLon
                        /\ ms[1].subtitle.day = 0

\* a two-leg itinerary whose first leg has only fromLat: two markers; the
\* counterpart with both start coordinates gives three
C18_Witness ==
    /\ Reconciled /\ CoordComplete(response.plan)
    /\ Len(response.plan) = 2
    /\ \/ /\ response.plan[1].fromLat # NoCoord
          /\ response.plan[1].fromLon = NoCoord
          /\ Len(response.actions[Len(response.actions)].markers) = 2
       \/ /\ HasStart(response.plan)
          /\ Len(response.actions[Len(response.actions)].markers) = 3

\* ----------------------------------------------------------------------
\* Properties of a request served with the real tools (checked under TripSpec)
\* ----------------------------------------------------------------------
\* a route step with two or more stages between known waypoints, no geojson
StagedRoute(st) ==
    /\ st.tool = "map.drawRoute"
    /\ st.args.geojson = NoGeojson
    /\ Len(st.args.stages) >= 2
    /\ \A k \in 1 .. Len(st.args.stages) :
        /\ st.args.stages[k].from # Absent /\ st.args.stages[k].to # Absent
        /\ \A net \in Nets :
            /\ lookupTownCoords(st.args.stages[k].from, net).status = "hit"
            /\ lookupTownCoords(st.args.stages[k].to, net).status = "hit"

\* C19 as stated: when the request that ran the planner's documented 5-day
\* example is answered, the response plan has 5 legs with days 1..5, each
\* with numeric toLat/toLon, and the response actions hold exactly one
\* drawMarkers action, with replace:true.
C19_AsStated ==
    (rpc = "idle" /\ response.kind = "executed" /\ plan = ExamplePlan) =>
        /\ Len(response.plan) = 5
        /\ \A k \in 1 .. Len(response.plan) :
            /\ response.plan[k].day = k
            /\ response.plan[k].toLat # NoCoord
            /\ response.plan[k].toLon # NoCoord
        /\ Cardinality(MarkerActions(response.actions)) = 1
        /\ \A n \in MarkerActions(response.actions) : response.actions[n].replace

\* C20 as stated: a map.drawRoute step with two or more stages between known
\* waypoints and no geojson, once it is done with, is logged ok, has put a
\* drawRoute action with one feature per stage in the actions, and has left
\* an itinerary of one leg per stage, each with destination coordinates.
C20_AsStated ==
    \A n \in 1 .. Len(logs) :
        LET st == plan.steps[logs[n].idx + 1]
        IN  StagedRoute(st) =>
                /\ logs[n].status = "ok"
                /\ \E m \in 1 .. Len(actions) :
                    /\ actions[m].type = "drawRoute"
                    /\ Len(actions[m].geojson.features) = Len(st.args.stages)
                /\ ~itinerary.isNull
                /\ Len(itinerary.legs) >= Len(st.args.stages)

\* a map.addMarkers step given place names, every one of which the lookup
\* cascade resolves whatever the geocoding service does
NamedMarkers(st) ==
    /\ st.tool = "map.addMarkers"
    /\ st.args.locations # Absent
    /\ Len(st.args.locations) > 0
    /\ \A k \in 1 .. Len(st.args.locations) :
        \A net \in Nets : lookupTownCoords(st.args.locations[k], net).status = "hit"

\* C21 as stated: a map.addMarkers step whose args list place names that all
\* resolve, once it is done with, is logged ok and has put in the actions a
\* drawMarkers action with one marker per name, each with numeric lat and lon.
C21_AsStated ==
    \A n \in 1 .. Len(logs) :
        LET st == plan.steps[logs[n].idx + 1]
        IN  NamedMarkers(st) =>
                /\ logs[n].status = "ok"
                /\ \E m \in 1 .. Len(actions) :
                    /\ actions[m].type = "drawMarkers"
                    /\ Len(actions[m].markers) = Len(st.args.locations)
                    /\ \A k \in 1 .. Len(actions[m].markers) :
                        /\ actions[m].markers[k].lat # NoCoord
                        /\ actions[m].markers[k].lon # NoCoord

\* the steps that runTool has been called on
Attempted == {k \in 1 .. Len(calls) : calls[k] > 0}

\* C22 as stated: when map.drawRoute has coerced a stages list, a stage
\* without `from` has the previous stage's `to` as its from (the first stage
\* the route's start name), and a stage without `to` has the route's end name
\* if it is the final stage and "Unknown" otherwise.
C22_AsStated ==
    \A s \in Attempted :
        LET a == plan.steps[s].args
            legs == StageLegs(a)
        IN  (plan.steps[s].tool = "map.drawRoute") =>
                \A k \in 1 .. Len(a.stages) :
                    /\ (a.stages[k].from = Absent /\ k = 1 /\ a.start # Absent)
                            => legs[k].from = a.start
                    /\ (a.stages[k].from = Absent /\ k > 1)
                            => legs[k].from = legs[k - 1].to
                    /\ (a.stages[k].to = Absent /\ k = Len(a.stages) /\ a.end # Absent)
                            => legs[k].to = a.end
                    /\ (a.stages[k].to = Absent /\ k < Len(a.stages))
                            => legs[k].to = "Unknown"

\* ----------------------------------------------------------------------
\* Properties of the plan-derived itinerary (checked under DeriveSpec)
\* ----------------------------------------------------------------------
\* the spec's example: stages [{from:"Sarria"}, {to:"Santiago"}]
GapStages == <<Stage("Sarria", Absent, NoKm), Stage(Absent, "Santiago", NoKm)>>

\* C23: in the itinerary executePlan derives from a map.drawRoute step's
\* stages, leg k has day k; a stage's own from and to are kept; a stage
\* without `from` gets the previous leg's `to` (the plan start for the first
\* stage); a stage without `to` gets the plan end only if it is the last
\* stage and is otherwise unresolved ("Unknown"). For stages [{from:Sarria},
\* {to:Santiago}] leg 1's to is unresolved and leg 2's from equals it.
C23_StageChaining ==
    (epc = "done" /\ plan.steps[1].tool = "map.drawRoute"
                  /\ Len(plan.steps[1].args.stages) > 0) =>
        LET a == plan.steps[1].args
            n == Len(a.stages)
            legs == result.itinerary.legs
        IN  /\ ~result.itinerary.isNull
            /\ Len(legs) = n
            /\ \A k \in 1 .. n :
                /\ legs[k].day = k
                /\ a.stages[k].from # Absent => legs[k].from = a.stages[k].from
                /\ a.stages[k].to # Absent => legs[k].to = a.stages[k].to
                /\ (a.stages[k].from = Absent /\ k = 1)
                        => legs[k].from = OrElse(a.start, "Unknown")
                /\ (a.stages[k].from = Absent /\ k > 1)
                        => legs[k].from = legs[k - 1].to
                /\ (a.stages[k].to = Absent /\ k = n)
                        => legs[k].to = OrElse(a.end, "Unknown")
                /\ (a.stages[k].to = Absent /\ k < n) => legs[k].to = "Unknown"
            /\ a.stages = GapStages =>
                    legs[1].to = "Unknown" /\ legs[2].from = legs[1].to

\* the pass over the spec's example has returned its derived itinerary
C23_Witness ==
    /\ epc = "done"
    /\ plan.steps[1].tool = "map.drawRoute"
    /\ plan.steps[1].args.start = "Sarria" /\ plan.steps[1].args.end = "Santiago"
    /\ plan.steps[1].args.stages = GapStages
    /\ result.itinerary.legs[2].from = "Unknown"

\* ----------------------------------------------------------------------
\* Properties of coalesceMarkers (checked under ReconSpec)
\* ----------------------------------------------------------------------
\* a coordinate rounded to 4 decimals, as a number in units of 1e-4 degree
Rounded4(x) == IF x < 0 THEN 0 - ((5 - x) \div 10) ELSE (x + 5) \div 10

\* a marker's (lat, lon) rounded to 4 decimals
RoundedPosition(m) == <<Rounded4(m.lat), Rounded4(m.lon)>>

\* C24 as stated: once step 4 has run, the merged markers of the executor's
\* drawMarkers actions hold no two markers with the same (lat, lon) rounded
\* to 4 decimals; every rounded position of an input marker is the position
\* of an output marker; every output marker is the first input marker of its
\* rounded position; and the output is in first-seen order.
C24_AsStated ==
    Reconciled =>
        LET input == MarkerLists(result.actions)
            out == coalesceMarkers(result.actions).markers
            First(pos) == CHOOSE k \in 1 .. Len(input) :
                            /\ RoundedPosition(input[k]) = pos
                            /\ \A m \in 1 .. k - 1 : RoundedPosition(input[m]) # pos
        IN  /\ \A a, b \in 1 .. Len(out) :
                a # b => RoundedPosition(out[a]) # RoundedPosition(out[b])
            /\ \A k \in 1 .. Len(input) :
                \E a \in 1 .. Len(out) :
                    RoundedPosition(out[a]) = RoundedPosition(input[k])
            /\ \A a \in 1 .. Len(out) : out[a] = input[First(RoundedPosition(out[a]))]
            /\ \A a, b \in 1 .. Len(out) :
                a < b => First(RoundedPosition(out[a])) < First(RoundedPosition(out[b]))

\* ----------------------------------------------------------------------
\* Properties of townsBetween (checked under LineSpec)
\* ----------------------------------------------------------------------
\* a sequence end to front
Reversed(s) == [k \in 1 .. Len(s) |-> s[Len(s) + 1 - k]]

\* the start and end names of the route step that has been attempted
LineStartName == plan.steps[1].args.start
LineEndName == plan.steps[1].args.end

\* C25: for the names a, b of an attempted route step, when both are known
\* waypoints townsBetween(a, b) starts with a, ends with b, runs through
\* consecutive rows of the reference table, and townsBetween(b, a) is the
\* same towns in reversed order; when either is not a known waypoint the
\* result is empty.
C25_TownsBetween ==
    (1 \in Attempted) =>
        LET a == LineStartName
            b == LineEndName
            ab == townsBetween(a, b)
            ba == townsBetween(b, a)
            ia == TownIndex(a)
            ib == TownIndex(b)
        IN  IF a \in TownNames /\ b \in TownNames
            THEN /\ Len(ab) = (IF ia <= ib THEN ib - ia ELSE ia - ib) + 1
                 /\ ab[1].name = a
                 /\ ab[Len(ab)].name = b
                 /\ \A k \in 1 .. Len(ab) :
                        ab[k] = FRANCES_LAST100[IF ia <= ib THEN ia + k - 1
                                                ELSE ia - k + 1]
                 /\ ba = Reversed(ab)
            ELSE ab = <<>> /\ ba = <<>>

\* the line from Santiago de Compostela back to Sarria has been drawn through
\* all 22 waypoints, last first
C25_Witness ==
    /\ 1 \in Attempted
    /\ LineStartName = "Santiago de Compostela" /\ LineEndName = "Sarria"
    /\ Len(actions) >= 2
    /\ actions[2].type = "drawRoute"
    /\ Len(actions[2].geojson.coordinates) = Len(FRANCES_LAST100)
    /\ actions[2].geojson.coordinates[1] = <<-854490, 4288060>>
    /\ actions[2].geojson.coordinates[Len(FRANCES_LAST100)] = <<-741430, 4278120>>

\* ----------------------------------------------------------------------
\* Properties of the plan store across requests (checked under Spec)
\* ----------------------------------------------------------------------
\* s is a prefix of t
IsPrefix(s, t) == Len(s) <= Len(t) /\ SubSeq(t, 1, Len(s)) = s

\* C26 as stated: in every step, a plan id that has a record keeps it, with
\* the same plan, and with its step logs as a prefix of the step logs it has
\* afterwards.
C26_AsStated ==
    [][\A id \in PlanIds :
          store[id].present =>
              /\ store'[id].present
              /\ store'[id].plan = store[id].plan
              /\ IsPrefix(store[id].steps, store'[id].steps)]_vars

\* ----------------------------------------------------------------------
\* Properties of the plan store under overlapping requests (ConcSpec)
\* ----------------------------------------------------------------------
\* C27 as stated: whatever the interleaving of the handlers, every log entry
\* that was passed to appendSteps for a plan id that had a record is in that
\* id's record, and a step changes only the record of the plan id of the
\* handler that took it.
C27_AsStated ==
    /\ [](\A n \in 1 .. Len(result.logs) :
            result.logs[n].recorded =>
                \A k \in 1 .. Len(result.logs[n].entries) :
                    \E m \in 1 .. Len(store[result.logs[n].id].steps) :
                        store[result.logs[n].id].steps[m]
                            = result.logs[n].entries[k])
    /\ [][\A id \in PlanIds :
            store'[id] # store[id] =>
                \E h \in Handlers : planId[h] = id /\ rpc'[h] # rpc[h]]_vars

\* ----------------------------------------------------------------------
\* Properties of the itinerary in a response (checked under TripSpec)
\* ----------------------------------------------------------------------
\* C28 as stated: the itinerary returned as `plan` in the response to an
\* executed request has day values 1, 2, ..., n in list order.
C28_AsStated ==
    Reconciled => \A k \in 1 .. Len(response.plan) : response.plan[k].day = k

\* ----------------------------------------------------------------------
\* Properties of the executor's itinerary on the real tools (TripSpec)
\* ----------------------------------------------------------------------
\* the itineraries step st can surface when it succeeds (a step that throws
\* surfaces none)
SurfacedBy(st) ==
    {runTool(st, net).itinerary : net \in Nets} \ {NullItinerary}

\* the last of the first n log entries whose step completed and surfaced an
\* itinerary, 0 if there is none
RECURSIVE LastSurfacer(_)
LastSurfacer(n) ==
    IF n = 0 THEN 0
    ELSE IF logs[n].status = "ok" /\ SurfacedBy(plan.steps[logs[n].idx + 1]) # {}
    THEN n
    ELSE LastSurfacer(n - 1)

\* what executePlan may return as itinerary when log entry n is the last
\* surfacer
ReturnableAfter(n) ==
    IF n > 0 THEN SurfacedBy(plan.steps[logs[n].idx + 1])
    ELSE {NullItinerary, extractLegsFromPlan(plan)}

\* C29: when executePlan has returned, the itinerary it returned is one the
\* last step that completed and surfaced an itinerary surfaced, whatever
\* earlier steps surfaced and whatever failed afterwards; a plan-derived
\* itinerary or none is returned only when no step surfaced one.
C29_LastWriterWins ==
    (rpc = "executing" /\ epc = "done") =>
        result.itinerary \in ReturnableAfter(LastSurfacer(Len(logs)))

\* two route steps surfaced different itineraries, a third step then failed,
\* and the second route's itinerary was returned
C29_Witness ==
    /\ rpc = "executing" /\ epc = "done"
    /\ Len(logs) = 3
    /\ logs[1].status = "ok" /\ logs[2].status = "ok" /\ logs[3].status = "error"
    /\ SurfacedBy(plan.steps[1]) # {} /\ SurfacedBy(plan.steps[2]) # {}
    /\ SurfacedBy(plan.steps[1]) \cap SurfacedBy(plan.steps[2]) = {}
    /\ result.itinerary \in SurfacedBy(plan.steps[2])

\* ----------------------------------------------------------------------
\* Properties of the plan-derived fallback (checked under ExecSpec)
\* ----------------------------------------------------------------------
\* the pass returned at its stop boundary and no tool's itinerary was kept
EndedWithoutToolItinerary ==
    Done /\ ~HaltedOnError /\ result.itinerary.src # "tool"

\* the map.drawRoute steps of the plan (1-based), and those among them that
\* carry stages or start/end names
RouteSteps == {k \in 1 .. Len(plan.steps) : plan.steps[k].tool = "map.drawRoute"}
DescribedRoutes == {k \in RouteSteps : plan.steps[k].args = "route"}

\* the plan's first map.drawRoute step, when it has one
FirstRouteStep == CHOOSE r \in RouteSteps : \A m \in RouteSteps : r <= m

\* C30 as stated: when the loop ended at its stop boundary without a tool's
\* itinerary and the plan has a map.drawRoute step with stages or start/end
\* names, the returned itinerary is derived from such a step; it is null
\* only when the plan has no such step.
C30_AsStated ==
    EndedWithoutToolItinerary =>
        IF DescribedRoutes # {}
        THEN /\ result.itinerary.src = "plan"
             /\ result.itinerary.step + 1 \in DescribedRoutes
        ELSE result.itinerary = NoItinerary

\* C30: when the loop ended at its stop boundary without a tool's itinerary,
\* the returned itinerary is the one derived from the arguments of the
\* plan's first map.drawRoute step if that step carries stages or start/end
\* names; it is null when the plan has no map.drawRoute step or its first one
\* carries neither, whatever later route steps carry.
C30_DerivedFromFirstRoute ==
    EndedWithoutToolItinerary =>
        IF RouteSteps # {} /\ FirstRouteStep \in DescribedRoutes
        THEN result.itinerary = [src |-> "plan", step |-> FirstRouteStep - 1]
        ELSE result.itinerary = NoItinerary

\* a pass stopped at a pause step after its first step had completed without
\* surfacing an itinerary, and returned the one derived from the route step
\* it never ran
C30_Witness ==
    /\ EndedWithoutToolItinerary
    /\ result.paused
    /\ Len(result.logs) = 1 /\ result.logs[1].status = "ok"
    /\ plan.steps[2].tool = "map.drawRoute"
    /\ result.nextIndex = 1
    /\ result.itinerary = [src |-> "plan", step |-> 1]

\* ----------------------------------------------------------------------
\* Skipped steps, order of the actions, discarded attempts (ExecSpec)
\* ----------------------------------------------------------------------
\* the loop stands at a step the caller marked as already executed
AtExecutedStep ==
    epc = "loop" /\ i < stopAt(plan, opts) /\ CurStep.id \in opts.alreadyExecuted

SkippedEntry(k) ==
    [idx |-> k, id |-> plan.steps[k + 1].id, tool |-> plan.steps[k + 1].tool,
     status |-> "skipped", errorCode |-> None]

\* C31: a step before the stop boundary whose id is in alreadyExecuted is
\* passed over in one move: its tool is not invoked, exactly one log entry
\* with status skipped is appended, the actions and the itinerary stay as
\* they are and the loop goes on to the next step; over the whole pass such
\* a step has one log entry, skipped, no invocation and no action.
C31_SkipIsFrameOnly ==
    /\ [][AtExecutedStep =>
            /\ calls' = calls
            /\ logs' = Append(logs, SkippedEntry(i))
            /\ actions' = actions
            /\ itinerary' = itinerary
            /\ i' = i + 1 /\ epc' = "loop" /\ attempt' = attempt]_vars
    /\ [](epc # "idle" =>
            \A k \in opts.startIndex .. i - 1 :
                plan.steps[k + 1].id \in opts.alreadyExecuted =>
                    /\ calls[k + 1] = 0
                    /\ Cardinality(LogsOf(logs, k)) = 1
                    /\ \A n \in LogsOf(logs, k) : logs[n] = SkippedEntry(k)
                    /\ \A n \in 1 .. Len(actions) : actions[n].src # k)

\* a drawRoute step marked as executed sits between two steps that ran: it
\* left one skipped entry and the later step was reached
C31_Witness ==
    /\ Done /\ Len(plan.steps) = 3 /\ opts.startIndex = 0
    /\ opts.alreadyExecuted = {"s2"} /\ plan.steps[2].tool = "map.drawRoute"
    /\ Len(result.logs) = 3
    /\ result.logs[1].status = "ok"
    /\ result.logs[2] = SkippedEntry(1)
    /\ result.logs[3].status = "ok"
    /\ calls[2] = 0 /\ result.itinerary.src # "tool"

\* ----------------------------------------------------------------------
\* Order of the actions (checked under OrderSpec)
\* ----------------------------------------------------------------------
ClearActions(acts) == {n \in 1 .. Len(acts) : acts[n].type = "clearRoute"}

\* the executor's own clear action is due
ClearDue == opts.prependClear /\ opts.startIndex = 0

OkEntry(k) ==
    [idx |-> k, id |-> plan.steps[k + 1].id, tool |-> plan.steps[k + 1].tool,
     status |-> "ok", errorCode |-> None]

\* the step at the loop index succeeded with these actions
Succeeded(ui) ==
    /\ actions' = actions \o ui
    /\ logs' = Append(logs, OkEntry(i))
    /\ i' = i + 1

\* C32: the actions of a pass open with one clearRoute action exactly when
\* startIndex is 0 and prependClear is set and hold no other clearRoute
\* action (none at all when resuming from a later index); from there they
\* grow only when a step succeeds, by that step's uiActions at the end, steps
\* succeeding in index order, and the result returns them as they stand.
\* Reconciliation keeps every non-marker action, in the same relative order.
C32_ActionOrder ==
    /\ [](epc # "idle" =>
            /\ ClearActions(actions) = IF ClearDue THEN {1} ELSE {}
            /\ \A n \in 1 .. Len(logs) - 1 : logs[n].idx < logs[n + 1].idx)
    /\ [][epc = "loop" =>
            \/ actions' = actions /\ (logs' = logs \/ LastLog(logs').status = "error")
            \/ \E net \in Nets :
                    runTool(CurStep, net).ok /\ Succeeded(runTool(CurStep, net).uiActions)]_vars
    /\ [](epc = "done" => result.actions = actions)
    /\ [](Reconciled =>
            ActionsNot(response.actions, "drawMarkers")
                = ActionsNot(result.actions, "drawMarkers"))

\* a pass resumed at the second step with prependClear set: no clear action,
\* the route's line and markers, then a focus; in the response the focus has
\* moved in front of the single marker action
C32_Witness ==
    /\ Reconciled /\ opts.startIndex = 1 /\ opts.prependClear
    /\ Len(plan.steps) = 3 /\ Len(result.logs) = 2
    /\ ClearActions(result.actions) = {}
    /\ Len(result.actions) = 3
    /\ result.actions[1].type = "drawRoute"
    /\ result.actions[2].type = "drawMarkers"
    /\ result.actions[3].type = "focus"
    /\ Len(response.actions) = 3
    /\ response.actions[2].type = "focus"
    /\ response.actions[3].type = "drawMarkers"

\* ----------------------------------------------------------------------
\* The dispatcher (checked under OrderSpec)
\* ----------------------------------------------------------------------
\* the loop stands at a step it is about to attempt
AtAttempt == epc = "loop" /\ i < stopAt(plan, opts) /\ attempt <= opts.maxRetries

\* the coercion of the step's tool returned, and what it returned passes the
\* tool's input contract (a tool without coercion is handed the raw args)
FocusCoerced(a, net) ==
    FocusPrepared(a, IF a.location # Absent THEN geocodeOnline(a.location, net)
                     ELSE NoPoint)

ContractOk(step, net) ==
    CASE step.tool = "map.focus" ->
            /\ ~FocusCoerced(step.args, net).threw
            /\ FocusCoerced(step.args, net).lat # NoCoord
            /\ FocusCoerced(step.args, net).lon # NoCoord
      [] step.tool = "map.drawRoute" ->
            /\ ~coerceDrawRoute(step.args, net).threw
            /\ DrawRouteInput(coerceDrawRoute(step.args, net))
      [] step.tool = "map.addMarkers" ->
            /\ ~coerceAddMarkers(step.args, net).threw
            /\ AddMarkersInput(coerceAddMarkers(step.args, net))
      [] OTHER -> step.args.valid

\* runTool gets as far as calling the tool's run
RunReached(step, net) == step.tool \in toolRegistry /\ ContractOk(step, net)

\* the attempt of the current step was caught as a failure
CountedAsFailure ==
    /\ attempt' = attempt + 1
    /\ calls' = [calls EXCEPT ![i + 1] = @ + 1]
    /\ actions' = actions /\ itinerary' = itinerary /\ i' = i
    /\ IF attempt + 1 > opts.maxRetries
       THEN epc' = "done" /\ LastLog(logs').status = "error" /\ result'.nextIndex = i
       ELSE epc' = "loop" /\ logs' = logs

\* C33: runTool returns a result only when its run was reached, that is when
\* the tool is in the registry and the coerced arguments passed the tool's
\* input contract; for an unknown tool name, a coercion that throws or
\* arguments the contract rejects it raises an error without calling run.
\* An attempt of the executor either takes a result of runTool or counts as
\* a failed attempt.
C33_DispatchOrder ==
    /\ [](AtAttempt =>
            \A net \in Nets :
                /\ runTool(CurStep, net).ok => RunReached(CurStep, net)
                /\ ~RunReached(CurStep, net) => runTool(CurStep, net) = ToolThrew
                /\ (RunReached(CurStep, net) /\ CurStep.tool = "map.drawRoute") =>
                        runTool(CurStep, net)
                            = runDrawRoute(coerceDrawRoute(CurStep.args, net), net))
    /\ [][AtAttempt =>
            \/ \E net \in Nets :
                    runTool(CurStep, net).ok /\ Succeeded(runTool(CurStep, net).uiActions)
            \/ (\E net \in Nets : ~runTool(CurStep, net).ok) /\ CountedAsFailure]_vars
    /\ [][(AtAttempt /\ \A net \in Nets : ~RunReached(CurStep, net)) =>
            CountedAsFailure]_vars

\* after a route step that ran, a step naming a tool the registry does not
\* have was attempted twice and the pass returned on it
C33_Witness ==
    /\ epc = "done" /\ Len(plan.steps) = 2 /\ opts.startIndex = 0
    /\ plan.steps[1].tool = "map.drawRoute"
    /\ plan.steps[2].tool \notin toolRegistry
    /\ Len(result.logs) = 2
    /\ result.logs[1].status = "ok"
    /\ result.logs[2].status = "error"
    /\ calls[2] = opts.maxRetries + 1
    /\ result.nextIndex = 1
    /\ \A n \in 1 .. Len(result.actions) : result.actions[n].type # "focus"

\* ----------------------------------------------------------------------
\* Attempts that lost the race against the timer (checked under RaceSpec)
\* ----------------------------------------------------------------------
\* an invocation that had been left running has just settled
SettledLate == orphans' # orphans /\ orphans' \subseteq orphans

\* the attempt of the current step has just been timed out
TimedOut == calls' # calls /\ errorMsg' = "timeout"

\* C34: when an invocation settles after its timer fired, with a result or
\* with an error, nothing of the pass changes: no action, no itinerary, no
\* log entry, and nothing in a result already returned. The timer does not
\* cancel the invocation, which stays running through the retry and after
\* the return. At every moment the actions are those of the steps logged ok
\* and a tool-surfaced itinerary is that of a step logged ok.
C34_LateResultDiscarded ==
    /\ [][SettledLate =>
            /\ actions' = actions /\ itinerary' = itinerary /\ logs' = logs
            /\ result' = result /\ i' = i /\ attempt' = attempt /\ epc' = epc]_vars
    /\ [][TimedOut => [idx |-> i, attempt |-> attempt] \in orphans']_vars
    /\ [](epc # "idle" =>
            /\ actions = ClearPrefix \o ActionsOfOk(logs)
            /\ itinerary.src = "tool" =>
                    \E n \in 1 .. Len(logs) :
                        logs[n].status = "ok" /\ logs[n].idx = itinerary.step
            /\ \A k \in 0 .. Len(plan.steps) - 1 : Cardinality(LogsOf(logs, k)) <= 1)
    /\ [](Done => result.actions = actions /\ result.logs = logs)

\* the first step went through on its retry, the second timed out twice and
\* the pass returned; since then every invocation left running has settled
C34_Witness ==
    /\ HaltedOnError /\ LastLog(result.logs).errorCode = "timeout"
    /\ opts.maxRetries = 1 /\ Len(plan.steps) = 2
    /\ result.logs[1].status = "ok"
    /\ calls = <<2, 2>>
    /\ orphans = {}
    /\ result.actions = ClearPrefix \o ActionsOfOk(<<result.logs[1]>>)

\* ----------------------------------------------------------------------
\* The plan of the response (checked under TripSpec and ReconSpec)
\* ----------------------------------------------------------------------
\* every leg of the itinerary has a numeric toLat and toLon
EveryLegLocated(it) ==
    ~it.isNull /\ \A k \in 1 .. Len(it.legs) :
                    it.legs[k].toLat # NoCoord /\ it.legs[k].toLon # NoCoord

\* the itinerary inferred from the markers of the executor's actions, if the
\* merged markers allow one (two markers at least)
InferredFromMarkers(acts) ==
    IF coalesceMarkers(acts).isNull \/ Len(coalesceMarkers(acts).markers) < 2
    THEN NullItinerary
    ELSE Some(itineraryFromMarkers(coalesceMarkers(acts).markers))

\* C35 as stated: the plan of an executed response is never absent or empty;
\* it is the executor's itinerary unchanged whenever every leg of that
\* itinerary has numeric toLat/toLon, whatever the markers; and it is the
\* canned two-leg itinerary exactly when the executor returned no itinerary
\* and the markers gave none.
C35_AsStated ==
    Reconciled =>
        /\ Len(response.plan) > 0
        /\ EveryLegLocated(result.itinerary) => response.plan = result.itinerary.legs
        /\ response.plan = DEMO_ITINERARY
               <=> (result.itinerary.isNull
                    /\ InferredFromMarkers(result.actions).isNull)

\* the executor returned no itinerary and its actions hold a marker action
OnlyMarkersToGoBy ==
    Reconciled /\ result.itinerary.isNull /\ MarkerActions(result.actions) # {}

\* the markers of the executor's marker actions, merged: the first marker of
\* each toFixed(4) key, in first-seen order
MergedMarkers == coalesceMarkers(result.actions).markers

\* leg k of the plan is the day to marker k, coming from marker k - 1
LegFollowsMarker(legs, ms, k) ==
    /\ legs[k].day = k
    /\ legs[k].toLat = ms[k].lat /\ legs[k].toLon = ms[k].lon
    /\ ms[k].title # Absent => legs[k].to = ms[k].title
    /\ (k > 1 /\ ms[k - 1].title # Absent) => legs[k].from = ms[k - 1].title

\* C36 as stated: when the executor returned no itinerary and execution
\* emitted any drawMarkers action, the plan of the response is inferred from
\* the merged markers: one leg per marker, leg i with day i, the name and
\* coordinates of marker i as destination and the title of marker i-1 as from.
C36_AsStated ==
    OnlyMarkersToGoBy =>
        /\ Len(response.plan) = Len(MergedMarkers)
        /\ \A k \in 1 .. Len(MergedMarkers) :
                LegFollowsMarker(response.plan, MergedMarkers, k)

\* C36: when the executor returned no itinerary and the marker actions of
\* the execution merge to two markers or more, the plan of the response has
\* one leg per merged marker, in first-seen order: leg i has day i, the
\* coordinates of marker i and its title as destination ("Overnight i" when
\* it has none), and from is the title of marker i-1 ("Previous" when it has
\* none, "Start" for the first leg); with fewer than two merged markers the
\* plan is the canned two-leg itinerary.
C36_InferredFromTwoMarkers ==
    OnlyMarkersToGoBy =>
        IF Len(MergedMarkers) >= 2
        THEN /\ Len(response.plan) = Len(MergedMarkers)
             /\ \A k \in 1 .. Len(MergedMarkers) :
                    /\ LegFollowsMarker(response.plan, MergedMarkers, k)
                    /\ MergedMarkers[k].title = Absent =>
                            response.plan[k].to = Overnight[k]
                    /\ response.plan[k].from =
                            IF k = 1 THEN "Start"
                            ELSE IF MergedMarkers[k - 1].title = Absent THEN "Previous"
                            ELSE MergedMarkers[k - 1].title
                    /\ response.plan[k].km = NoKm
        ELSE response.plan = DEMO_ITINERARY

\* two marker actions sharing a place: the three markers merge to two named
\* ones and the plan has the two legs Start -> Melide -> Arzua
C36_Witness ==
    /\ OnlyMarkersToGoBy
    /\ Cardinality(MarkerActions(result.actions)) = 2
    /\ Len(MarkerLists(result.actions)) = 3
    /\ Len(MergedMarkers) = 2
    /\ Len(response.plan) = 2
    /\ response.plan[1].from = "Start" /\ response.plan[1].to = "Melide"
    /\ response.plan[2].from = "Melide" /\ response.plan[2].to = "Arzua"

\* the executor returned an itinerary that lacks a destination coordinate
\* (or has no leg at all)
IncompleteItinerary ==
    Reconciled /\ ~result.itinerary.isNull
    /\ ~CoordComplete(result.itinerary.legs)

\* the destination names of an inferred itinerary
Destinations(it) == {it.legs[k].to : k \in 1 .. Len(it.legs)}

\* the inference has as many legs as the itinerary and varied destinations
InferenceFits ==
    /\ ~InferredFromMarkers(result.actions).isNull
    /\ Len(InferredFromMarkers(result.actions).legs) = Len(result.itinerary.legs)
    /\ Cardinality(Destinations(InferredFromMarkers(result.actions))) > 1

\* C37: when the executor's itinerary exists but is not coordinate-complete,
\* the plan of the response has the same number of legs and on each leg the
\* same day, from, to and km (and start coordinates); the destination
\* coordinates are those of the marker-derived inference when that inference
\* has the same number of legs and more than one distinct destination name,
\* and otherwise the itinerary is returned untouched.
C37_BackfillOnly ==
    IncompleteItinerary =>
        /\ Len(response.plan) = Len(result.itinerary.legs)
        /\ \A k \in 1 .. Len(response.plan) :
            /\ response.plan[k].day = result.itinerary.legs[k].day
            /\ response.plan[k].from = result.itinerary.legs[k].from
            /\ response.plan[k].to = result.itinerary.legs[k].to
            /\ response.plan[k].km = result.itinerary.legs[k].km
            /\ response.plan[k].fromLat = result.itinerary.legs[k].fromLat
            /\ response.plan[k].fromLon = result.itinerary.legs[k].fromLon
        /\ IF InferenceFits
           THEN \A k \in 1 .. Len(response.plan) :
                    /\ response.plan[k].toLat
                            = InferredFromMarkers(result.actions).legs[k].toLat
                    /\ response.plan[k].toLon
                            = InferredFromMarkers(result.actions).legs[k].toLon
           ELSE response.plan = result.itinerary.legs

\* two legs without coordinates and two markers that share one name: the
\* inference has the right length but a single destination, and the
\* itinerary comes back untouched
C37_Witness ==
    /\ IncompleteItinerary
    /\ Len(result.itinerary.legs) = 2
    /\ \A k \in 1 .. 2 : result.itinerary.legs[k].toLat = NoCoord
    /\ ~InferredFromMarkers(result.actions).isNull
    /\ Len(InferredFromMarkers(result.actions).legs) = 2
    /\ Destinations(InferredFromMarkers(result.actions)) = {"Melide"}
    /\ response.plan = result.itinerary.legs

\* ----------------------------------------------------------------------
\* Approval and re-execution (checked under Spec)
\* ----------------------------------------------------------------------
\* the entries of a stored plan's step log that report step k as run
RunsOf(rec, k) ==
    {n \in 1 .. Len(rec.steps) : rec.steps[n].idx = k /\ rec.steps[n].status = "ok"}

\* C38 as stated: a stored plan is consumed once: over all the requests that
\* name a plan id, a repeated approve:true included, no step of the stored
\* plan has its tool run successfully more than once.
C38_AsStated ==
    \A id \in PlanIds :
        store[id].present =>
            \A k \in 0 .. Len(store[id].plan.steps) - 1 :
                Cardinality(RunsOf(store[id], k)) <= 1

\* the request at hand built its plan itself, and the plan has a pause step
BuiltWithPause ==
    /\ rpc # "idle" /\ ~Resumes(req)
    /\ validated.ok /\ PauseSteps(validated.data) # {}

\* C39 as stated: a plan that the builder produced with a pause step is
\* returned as draftPlan before any of its tools run: in no request, one
\* carrying approve:true without a plan id or inline plan included, is the
\* executor started on the plan the request has just built when that plan
\* has a pause step.
C39_AsStated ==
    BuiltWithPause => epc = "idle" /\ calls = <<>>

\* ----------------------------------------------------------------------
\* The itinerary of a pass that a failed step ended (checked under ExecSpec)
\* ----------------------------------------------------------------------
\* the step of the log that surfaced the itinerary, as a set (empty or one)
SurfacingEntries(ls, it) ==
    {n \in 1 .. Len(ls) : ls[n].status = "ok" /\ ls[n].idx = it.step}

\* C40: a pass that returns because a step failed on every attempt returns
\* the itinerary it held when the step failed, never one derived from the
\* plan: the itinerary surfaced by a step that succeeded earlier in the pass,
\* or null. Inside the loop no plan-derived itinerary is ever held, and a
\* result carries one only when the loop ended at its stop boundary.
C40_NoDerivationOnError ==
    /\ [](HaltedOnError =>
            /\ result.itinerary.src # "plan"
            /\ result.itinerary = itinerary
            /\ result.itinerary # NoItinerary =>
                    /\ result.itinerary.src = "tool"
                    /\ result.itinerary.step < result.nextIndex
                    /\ SurfacingEntries(result.logs, result.itinerary) # {}
                    /\ plan.steps[result.itinerary.step + 1].tool = "map.drawRoute")
    /\ [](epc = "loop" => itinerary.src # "plan")
    /\ []((Done /\ result.itinerary.src = "plan") =>
            /\ ~HaltedOnError
            /\ result.nextIndex = stopAt(plan, opts)
            /\ \A n \in 1 .. Len(result.logs) : result.logs[n].status # "error")
    /\ [][(epc = "loop" /\ epc' = "done" /\ logs' # logs) =>
            result'.itinerary = itinerary /\ itinerary' = itinerary]_vars

\* the first step failed on every attempt in a plan whose route step names
\* its stages: the pass returned no itinerary although the plan would have
\* given one
C40_Witness ==
    /\ HaltedOnError /\ result.nextIndex = 0 /\ opts.startIndex = 0
    /\ Len(plan.steps) >= 2 /\ plan.steps[2].tool = "map.drawRoute"
    /\ extractItineraryFromPlan(plan) # NoItinerary
    /\ result.itinerary = NoItinerary
    /\ calls[1] = opts.maxRetries + 1

====
